---- MODULE Spec2Model ----
(***************************************************************************)
(* Clotic: the rate-limited dispatch engine (src/processor.ts), its pure   *)
(* rate limiter (src/rateLimiter.ts), the configuration it reads           *)
(* (src/config.ts) and the messages table it works on (src/db.ts).         *)
(*                                                                         *)
(* Times are epoch milliseconds as returned by Date.now().  A message row  *)
(* is a record; the table is a sequence whose index is the AUTOINCREMENT   *)
(* id.  Strings that the code parses are sequences of one-character        *)
(* strings, so that parseInt is computed and not assumed.                  *)
(***************************************************************************)
EXTENDS Integers, Sequences, FiniteSets, TLC

VARIABLES
    now,          \* Date.now(): the wall clock
    env,          \* Env bindings RATE_LIMIT_PRIVATE / _CHANNEL / _GLOBAL (strings)
    messages,     \* the "messages" table, row id = index
    pc,           \* per processMessages invocation: position in the code
    startTime,    \* processor.ts:52
    currentTime,  \* processor.ts:55
    batch,        \* processor.ts:57
    selected,     \* processor.ts:64
    deferred,     \* processor.ts:64
    selectedIds,  \* processor.ts:72
    additional,   \* processor.ts:74
    addDeferred,  \* processor.ts:76
    sendResults,  \* processor.ts:84
    idx,          \* index of the for-loops at processor.ts:67, 78 and 92
    rounds,       \* iterations of the while loop at processor.ts:73 in this tick
    calls,        \* the send callbacks of processor.ts:85-88, one per selected message
    thrown,       \* a store call of the invocation has thrown
    rlIn,         \* an argument handed to applyRateLimit on its own
    rlOut,        \* <<what applyRateLimit returned for rlIn>>, <<>> before the call
    delays,       \* delays[n] = backoff delay computed for newAttempts = n
    responded,    \* messageId of the workflow runs whose fetch() has returned
    contexts,     \* workflow.ts:63: `context` of each run that is at its delay step
    delivered,    \* ids of the messages for which a send has returned success
    pollPc,       \* startPolling: position in the code
    offset,       \* polling.ts:61
    updates,      \* polling.ts:65: what getUpdates returned
    upos,         \* index of the for-loop at polling.ts:67
    passed,       \* update_id of every update handed to runWorkflow at polling.ts:77
    arrived,      \* Telegram's side: arrived[i] = update i has a `message` field
    runThrew,     \* the runWorkflow call of polling.ts:77 has thrown
    files,        \* the "file_identifiers" table: r2Key -> telegramFileId
    blobs,        \* the keys the R2 bucket holds a blob for
    sends,        \* the calls of sendPhotoMessage, in the order they began
    schema_migrations, \* the versions in the "schema_migrations" table
    migPc,        \* migration_runner.ts: position in runMigrations
    pending,      \* migration_runner.ts:118: pendingMigrations still to apply
    appliedLog,   \* the migrations applied, in order: the run and the version
    runs          \* the runs of the migration runner so far

vars == <<now, env, messages, pc, startTime, currentTime, batch, selected,
          deferred, selectedIds, additional, addDeferred, sendResults, idx,
          rounds, calls, thrown, rlIn, rlOut, delays, responded,
          contexts, delivered, pollPc, offset, updates, upos, passed, arrived,
          runThrew, files, blobs, sends, schema_migrations, migPc, pending,
          appliedLog, runs>>

loopVars == <<pc, startTime, currentTime, batch, selected, deferred,
              selectedIds, additional, addDeferred, sendResults, idx,
              rounds, calls, thrown>>

tickVars == <<rounds, calls, thrown>>

pureVars == <<rlIn, rlOut, delays>>

webVars == <<responded, contexts>>

histVars == <<delivered>>

photoVars == <<files, blobs, sends>>

migVars == <<schema_migrations, migPc, pending, appliedLog, runs>>

pollVars == <<pollPc, offset, updates, upos, passed, arrived, runThrew>>

----------------------------------------------------------------------------
(* Bounds of the model *)

\* rows the table can hold in the model
MaxRows == 3
\* sends of one message that the transport may fail before it succeeds,
\* where the transport is taken to recover
MaxFailures == 1
\* longest batch handed to applyRateLimit on its own
MaxBatch == 3
\* largest attempt count the backoff is computed for
MaxN == 10
\* no invocation of processMessages starts after this time (ms)
MaxNow == 80000
\* the ticks of an invocation that are followed: those that start in its
\* first MaxTicks seconds (and then the end of its window)
MaxTicks == 2

(* Program constants *)

TickMs == 1000
ProcessingDuration == 59000
MinuteMs == 60000
CapMinutes == 256
DelayStepMs == 15000
DefaultPrivate == 1
DefaultChannel == 20
DefaultGlobal == 30

----------------------------------------------------------------------------
(* Generic helpers *)

Min(a, b) == IF a <= b THEN a ELSE b
Max(a, b) == IF a >= b THEN a ELSE b

Range(s) == {s[i] : i \in DOMAIN s}

RECURSIVE Pow2(_)
\* Math.pow(2, n) for an integer n >= 0
Pow2(n) == IF n <= 0 THEN 1 ELSE 2 * Pow2(n - 1)

\* Array.prototype.slice(start, end): negative indexes count from the end
JsSlice(s, start, end) ==
    LET len == Len(s)
        k   == IF start < 0 THEN Max(len + start, 0) ELSE Min(start, len)
        e   == IF end < 0 THEN Max(len + end, 0) ELSE Min(end, len)
    IN  SubSeq(s, k + 1, e)

----------------------------------------------------------------------------
(* src/config.ts *)

Digits == <<"0", "1", "2", "3", "4", "5", "6", "7", "8", "9">>
IsDigit(c) == \E d \in DOMAIN Digits : Digits[d] = c
DigitVal(c) == (CHOOSE d \in DOMAIN Digits : Digits[d] = c) - 1

NaN == [nan |-> TRUE, val |-> 0]
Num(v) == [nan |-> FALSE, val |-> v]

RECURSIVE SkipSpaces(_)
SkipSpaces(s) == IF s # <<>> /\ Head(s) = " " THEN SkipSpaces(Tail(s)) ELSE s

RECURSIVE DigitPrefix(_, _)
\* value of the longest prefix of decimal digits, acc the value so far
DigitPrefix(s, acc) ==
    IF s # <<>> /\ IsDigit(Head(s))
    THEN DigitPrefix(Tail(s), 10 * acc + DigitVal(Head(s)))
    ELSE acc

\* parseInt(str, 10): leading blanks, an optional sign, then digits up to
\* the first other character; NaN when there is no digit (or no string).
parseInt(str) ==
    LET t    == SkipSpaces(str)
        neg  == t # <<>> /\ Head(t) = "-"
        body == IF t # <<>> /\ Head(t) \in {"-", "+"} THEN Tail(t) ELSE t
    IN  IF body = <<>> \/ ~IsDigit(Head(body)) THEN NaN
        ELSE Num((IF neg THEN -1 ELSE 1) * DigitPrefix(body, 0))

\* `x || d` on a number: NaN and 0 are falsy
OrDefault(x, d) == IF x.nan \/ x.val = 0 THEN d ELSE x.val

getConfig(e) ==
    [RATE_LIMIT_PRIVATE |-> OrDefault(parseInt(e.RATE_LIMIT_PRIVATE), DefaultPrivate),
     RATE_LIMIT_CHANNEL |-> OrDefault(parseInt(e.RATE_LIMIT_CHANNEL), DefaultChannel),
     RATE_LIMIT_GLOBAL  |-> OrDefault(parseInt(e.RATE_LIMIT_GLOBAL), DefaultGlobal)]

----------------------------------------------------------------------------
(* src/rateLimiter.ts *)

\* A chat id is the decimal string of an integer; as a property key of the
\* `groups` object it is an array index exactly when it is not negative.
IsIndexKey(chatId) == chatId >= 0

RECURSIVE FirstSeen(_, _)
\* the chat ids of a batch in order of first appearance, without those in S
FirstSeen(msgs, S) ==
    IF msgs = <<>> THEN <<>>
    ELSE IF Head(msgs).chatId \in S THEN FirstSeen(Tail(msgs), S)
         ELSE <<Head(msgs).chatId>> \o FirstSeen(Tail(msgs), S \cup {Head(msgs).chatId})

RECURSIVE Ascending(_)
\* a finite set of integers as an ascending sequence
Ascending(S) ==
    IF S = {} THEN <<>>
    ELSE LET m == CHOOSE x \in S : \A y \in S : x <= y
         IN  <<m>> \o Ascending(S \ {m})

\* `for (const chatId in groups)`: index keys ascending, then the other
\* keys in insertion order
GroupKeys(msgs) ==
    LET idxKeys == {m.chatId : m \in {x \in Range(msgs) : IsIndexKey(x.chatId)}}
    IN  Ascending(idxKeys) \o FirstSeen(msgs, idxKeys)

RECURSIVE GroupOf(_, _)
\* groups[chatId]: the messages of the chat in input order
GroupOf(msgs, chatId) ==
    IF msgs = <<>> THEN <<>>
    ELSE (IF Head(msgs).chatId = chatId THEN <<Head(msgs)>> ELSE <<>>)
         \o GroupOf(Tail(msgs), chatId)

RECURSIVE InsertByDate(_, _)
\* x put after every element whose processingDate is <= its own
InsertByDate(sorted, x) ==
    IF sorted = <<>> THEN <<x>>
    ELSE IF Head(sorted).processingDate <= x.processingDate
         THEN <<Head(sorted)>> \o InsertByDate(Tail(sorted), x)
         ELSE <<x>> \o sorted

RECURSIVE SortByDateFrom(_, _)
SortByDateFrom(acc, rest) ==
    IF rest = <<>> THEN acc
    ELSE SortByDateFrom(InsertByDate(acc, Head(rest)), Tail(rest))

\* SortByDate with the sort of rateLimiter.ts:45 lost
SortByDateNone(group) == group

\* group.sort((a, b) => a.processingDate - b.processingDate): stable
SortByDate(group) == SortByDateFrom(<<>>, group)

\* LimitOf with the class test lost: every chat gets the channel ceiling
LimitOfIgnoringClass(chatType, config) == config.RATE_LIMIT_CHANNEL

\* the ceiling looked up from the class of the group's first message
LimitOf(chatType, config) ==
    IF chatType = "channel" THEN config.RATE_LIMIT_CHANNEL
    ELSE config.RATE_LIMIT_PRIVATE

RECURSIVE RateLimitGroups(_, _, _, _)
\* RateLimitGroups with `extra` cut one element late: group.slice(limit + 1)
RateLimitGroupsSkipOne(keys, msgs, config, acc) ==
    IF keys = <<>> THEN acc
    ELSE LET group   == GroupOf(msgs, Head(keys))
             limit   == LimitOf(group[1].chatType, config)
             sorted  == SortByDate(group)
             allowed == JsSlice(sorted, 0, limit)
             extra   == JsSlice(sorted, limit + 1, Len(sorted))
         IN  RateLimitGroups(Tail(keys), msgs, config,
                 [selected |-> acc.selected \o allowed,
                  deferred |-> acc.deferred \o extra])

\* RateLimitGroups with one allowance for the whole batch: a chat gets what
\* the chats before it left of its ceiling
RateLimitGroupsSharedAllowance(keys, msgs, config, acc) ==
    IF keys = <<>> THEN acc
    ELSE LET group   == GroupOf(msgs, Head(keys))
             limit   == Max(LimitOf(group[1].chatType, config) - Len(acc.selected), 0)
             sorted  == SortByDate(group)
             allowed == JsSlice(sorted, 0, limit)
             extra   == JsSlice(sorted, limit, Len(sorted))
         IN  RateLimitGroups(Tail(keys), msgs, config,
                 [selected |-> acc.selected \o allowed,
                  deferred |-> acc.deferred \o extra])

\* rateLimiter.ts:36-52: the groups in key order, each sorted and cut at
\* the ceiling of its class
RateLimitGroups(keys, msgs, config, acc) ==
    IF keys = <<>> THEN acc
    ELSE LET group   == GroupOf(msgs, Head(keys))
             limit   == LimitOf(group[1].chatType, config)
             sorted  == SortByDate(group)
             allowed == JsSlice(sorted, 0, limit)
             extra   == JsSlice(sorted, limit, Len(sorted))
         IN  RateLimitGroups(Tail(keys), msgs, config,
                 [selected |-> acc.selected \o allowed,
                  deferred |-> acc.deferred \o extra])

\* ArgumentAfterCall with the groups sorted where they lie in the argument:
\* messages.sort(...) in place of group.sort(...)
ArgumentAfterCallSortedInPlace(msgs, e) == SortByDate(msgs)

\* rateLimiter.ts:29-34, 45-51: what the argument array holds when the call
\* returns.  The argument is only iterated; push (33, 50, 51) and sort (45)
\* write the arrays created at lines 24, 25, 31 and by slice (48, 49), and
\* no line assigns a field of a message.
ArgumentAfterCall(msgs, e) == msgs

applyRateLimit(msgs, e) ==
    RateLimitGroups(GroupKeys(msgs), msgs, getConfig(e),
                    [selected |-> <<>>, deferred |-> <<>>])

----------------------------------------------------------------------------
(* Backoff, processor.ts:98-100 *)

\* the delay computed from the attempt count before the increment
DelayMinutesOldAttempts(newAttempts) == Min(Pow2(newAttempts - 1), CapMinutes)

\* the delay without its cap
DelayMinutesNoCap(newAttempts) == Pow2(newAttempts)

\* Math.min(Math.pow(2, newAttempts), 256)
DelayMinutes(newAttempts) == Min(Pow2(newAttempts), CapMinutes)

----------------------------------------------------------------------------
(* src/db.ts: the messages table *)

\* Eligible with the `processed = 0` condition lost
EligibleIgnoringProcessed(t, excludedIds) ==
    {i \in DOMAIN messages :
        /\ messages[i].prepared
        /\ messages[i].processingDate <= t
        /\ i \notin excludedIds}

\* Eligible with the `prepared = 1` condition lost
EligibleIgnoringPrepared(t, excludedIds) ==
    {i \in DOMAIN messages :
        /\ ~messages[i].processed
        /\ messages[i].processingDate <= t
        /\ i \notin excludedIds}

\* the rows a due query sees: processed = 0 AND prepared = 1 AND
\* processingDate <= ? [AND id NOT IN (...)]
Eligible(t, excludedIds) ==
    {i \in DOMAIN messages :
        /\ ~messages[i].processed
        /\ messages[i].prepared
        /\ messages[i].processingDate <= t
        /\ i \notin excludedIds}

\* ORDER BY processingDate ASC LIMIT ?: every result the query may give.
\* Rows with equal processingDate come in an order SQL leaves open, and a
\* negative LIMIT means no limit.
QueryResults(t, excludedIds, limit) ==
    LET E == Eligible(t, excludedIds)
        k == IF limit < 0 THEN Cardinality(E) ELSE Min(limit, Cardinality(E))
        date(i) == messages[i].processingDate
    IN  {[j \in 1..k |-> messages[r[j]]] : r \in
            {q \in [1..k -> E] :
                /\ \A a, b \in 1..k : a < b => q[a] # q[b] /\ date(q[a]) <= date(q[b])
                /\ \A i \in E \ Range(q) : \A a \in 1..k : date(q[a]) <= date(i)}}

getUnprocessedMessages(t, limit) == QueryResults(t, {}, limit)

\* getUnprocessedMessagesExcluding with the LIMIT lost
getUnprocessedMessagesExcludingNoLimit(t, excludedIds, limit) ==
    QueryResults(t, Range(excludedIds), -1)

getUnprocessedMessagesExcluding(t, excludedIds, limit) ==
    QueryResults(t, Range(excludedIds), limit)

\* UPDATE messages SET processed = 1 WHERE id = ?
markMessageProcessed(id) ==
    [messages EXCEPT ![id].processed = TRUE]

\* updateMessageRetry with the row picked by chat: WHERE chatId = (the chat
\* of row id)
updateMessageRetryWholeChat(id, attempts, newProcessingDate) ==
    [m \in DOMAIN messages |->
        IF messages[m].chatId = messages[id].chatId
        THEN [messages[m] EXCEPT !.attempts = attempts,
                                 !.processingDate = newProcessingDate]
        ELSE messages[m]]

\* updateMessageRetry that also opens the row again: processed = 0
updateMessageRetryReopens(id, attempts, newProcessingDate) ==
    [messages EXCEPT ![id].attempts = attempts,
                     ![id].processingDate = newProcessingDate,
                     ![id].processed = FALSE]

\* updateMessageRetry that also sets processed = 1
updateMessageRetryMarks(id, attempts, newProcessingDate) ==
    [messages EXCEPT ![id].attempts = attempts,
                     ![id].processingDate = newProcessingDate,
                     ![id].processed = TRUE]

\* UPDATE messages SET attempts = ?, processingDate = ? WHERE id = ?
updateMessageRetry(id, attempts, newProcessingDate) ==
    [messages EXCEPT ![id].attempts = attempts,
                     ![id].processingDate = newProcessingDate]

\* updateMessageProcessingDate that counts the deferral as an attempt:
\* SET processingDate = ?, attempts = attempts + 1
updateMessageProcessingDateCounts(id, newProcessingDate) ==
    [messages EXCEPT ![id].processingDate = newProcessingDate,
                     ![id].attempts = @ + 1]

\* UPDATE messages SET processingDate = ? WHERE id = ?
updateMessageProcessingDate(id, newProcessingDate) ==
    [messages EXCEPT ![id].processingDate = newProcessingDate]

\* prependMessageContentAndMarkPrepared with the row test lost: WHERE id >= ?
prependMessageContentAndMarkPreparedFrom(id, prefix) ==
    [m \in DOMAIN messages |->
        IF m >= id
        THEN [messages[m] EXCEPT !.content = <<prefix>> \o @, !.prepared = TRUE]
        ELSE messages[m]]

\* UPDATE messages SET content = ? || content, prepared = 1 WHERE id = ?
\* (no row has id 0: AUTOINCREMENT ids start at 1)
prependMessageContentAndMarkPrepared(id, prefix) ==
    [m \in DOMAIN messages |->
        IF m = id
        THEN [messages[m] EXCEPT !.content = <<prefix>> \o @, !.prepared = TRUE]
        ELSE messages[m]]

\* INSERT INTO messages (...): the new row gets the next AUTOINCREMENT id
insertMessage(record) ==
    Append(messages, [record EXCEPT !.id = Len(messages) + 1])

----------------------------------------------------------------------------
(* The chats of the model: a chat id and the class Telegram gives it *)

ChatIds == {7, -100}
ChatTypeOf(chatId) == IF chatId < 0 THEN "channel" ELSE "private"

\* the MessageRecord built at messageHandler.ts:78-90
NewRecord(chatId, t) ==
    [id |-> 0, chatId |-> chatId, chatType |-> ChatTypeOf(chatId),
     content |-> <<"text">>, processed |-> FALSE, attempts |-> 0,
     processingDate |-> t, createdAt |-> t, prepared |-> FALSE]

\* the invocations of processMessages that may overlap
Procs == {1, 2}

\* the storage keys and the Telegram file ids of the model
Keys == {"files/a", "files/b"}
FileIds == {"F1", "F2"}

\* no file is recorded or stored, no photo is sent
PhotoOff ==
    /\ files = [k \in Keys |-> "none"]
    /\ blobs = {}
    /\ sends = <<>>

\* the migration runner has not been run: nothing is recorded or applied
MigOff ==
    /\ schema_migrations = {}
    /\ migPc = "idle"
    /\ pending = <<>>
    /\ appliedLog = <<>>
    /\ runs = 0

\* startPolling has not been called
PollOff ==
    /\ pollPc = "off"
    /\ offset = 0
    /\ updates = <<>>
    /\ upos = 0
    /\ passed = <<>>
    /\ arrived = <<>>
    /\ runThrew = FALSE

Idle == [p \in Procs |-> "idle"]
NoTime == [p \in Procs |-> 0]
NoSeq == [p \in Procs |-> <<>>]
NoFlag == [p \in Procs |-> FALSE]

----------------------------------------------------------------------------
(* src/processor.ts: processMessages, one action per await *)

Ids(msgs) == [j \in DOMAIN msgs |-> msgs[j].id]

\* processor.ts:46-52: scheduled() calls processMessages
Start(p) ==
    /\ pc[p] = "idle"
    /\ startTime' = [startTime EXCEPT ![p] = now]
    /\ pc' = [pc EXCEPT ![p] = "loop"]
    /\ UNCHANGED <<now, env, messages, currentTime, batch, selected, deferred,
                   selectedIds, additional, addDeferred, sendResults, idx,
                   pureVars, webVars, histVars, photoVars, migVars, pollVars, tickVars>>

\* Tick with the while test lost: while (true)
TickNoWindow(p) ==
    /\ pc[p] = "loop"
    /\ currentTime' = [currentTime EXCEPT ![p] = now]
    /\ pc' = [pc EXCEPT ![p] = "query"]
    /\ batch' = [batch EXCEPT ![p] = <<>>]
    /\ selected' = [selected EXCEPT ![p] = <<>>]
    /\ deferred' = [deferred EXCEPT ![p] = <<>>]
    /\ selectedIds' = [selectedIds EXCEPT ![p] = <<>>]
    /\ additional' = [additional EXCEPT ![p] = <<>>]
    /\ addDeferred' = [addDeferred EXCEPT ![p] = <<>>]
    /\ sendResults' = [sendResults EXCEPT ![p] = <<>>]
    /\ idx' = [idx EXCEPT ![p] = 0]
    /\ rounds' = [rounds EXCEPT ![p] = 0]
    /\ calls' = [calls EXCEPT ![p] = <<>>]
    /\ UNCHANGED <<now, env, messages, startTime, thrown, pureVars, webVars, histVars, photoVars, migVars, pollVars>>

\* processor.ts:54-55: the while test holds, currentTime is taken
Tick(p) ==
    /\ pc[p] = "loop"
    /\ now - startTime[p] < ProcessingDuration
    /\ currentTime' = [currentTime EXCEPT ![p] = now]
    /\ pc' = [pc EXCEPT ![p] = "query"]
    /\ batch' = [batch EXCEPT ![p] = <<>>]
    /\ selected' = [selected EXCEPT ![p] = <<>>]
    /\ deferred' = [deferred EXCEPT ![p] = <<>>]
    /\ selectedIds' = [selectedIds EXCEPT ![p] = <<>>]
    /\ additional' = [additional EXCEPT ![p] = <<>>]
    /\ addDeferred' = [addDeferred EXCEPT ![p] = <<>>]
    /\ sendResults' = [sendResults EXCEPT ![p] = <<>>]
    /\ idx' = [idx EXCEPT ![p] = 0]
    /\ rounds' = [rounds EXCEPT ![p] = 0]
    /\ calls' = [calls EXCEPT ![p] = <<>>]
    /\ UNCHANGED <<now, env, messages, startTime, thrown, pureVars, webVars, histVars, photoVars, migVars, pollVars>>

\* processor.ts:54, 108: the window is over, processMessages returns
Exit(p) ==
    /\ pc[p] = "loop"
    /\ ~(now - startTime[p] < ProcessingDuration)
    /\ pc' = [pc EXCEPT ![p] = "idle"]
    /\ UNCHANGED <<now, env, messages, startTime, currentTime, batch, selected,
                   deferred, selectedIds, additional, addDeferred, sendResults, idx, pureVars, webVars, histVars, photoVars, migVars, pollVars, tickVars>>

\* QueryEmpty with the sleep of processor.ts:59 lost: the loop spins
QueryEmptySpins(p) ==
    /\ pc[p] = "query"
    /\ \E config \in {getConfig(env)} :
        <<>> \in getUnprocessedMessages(currentTime[p], config.RATE_LIMIT_GLOBAL)
    /\ pc' = [pc EXCEPT ![p] = "loop"]
    /\ UNCHANGED <<now, env, messages, startTime, currentTime, batch, selected,
                   deferred, selectedIds, additional, addDeferred, sendResults, idx, pureVars, webVars, histVars, photoVars, migVars, pollVars, tickVars>>

\* processor.ts:47, 57-61: the due query, under the configuration read at
\* the start, returns nothing
QueryEmpty(p) ==
    /\ pc[p] = "query"
    /\ \E config \in {getConfig(env)} :
        <<>> \in getUnprocessedMessages(currentTime[p], config.RATE_LIMIT_GLOBAL)
    /\ pc' = [pc EXCEPT ![p] = "sleep"]
    /\ UNCHANGED <<now, env, messages, startTime, currentTime, batch, selected,
                   deferred, selectedIds, additional, addDeferred, sendResults, idx, pureVars, webVars, histVars, photoVars, migVars, pollVars, tickVars>>

\* processor.ts:57-64: the due query returns a batch, the rate limiter runs
Query(p) ==
    /\ pc[p] = "query"
    /\ \E config \in {getConfig(env)} :
       \E b \in getUnprocessedMessages(currentTime[p], config.RATE_LIMIT_GLOBAL) :
        /\ b # <<>>
        /\ batch' = [batch EXCEPT ![p] = b]
        /\ selected' = [selected EXCEPT ![p] = applyRateLimit(b, env).selected]
        /\ deferred' = [deferred EXCEPT ![p] = applyRateLimit(b, env).deferred]
    /\ idx' = [idx EXCEPT ![p] = 1]
    /\ pc' = [pc EXCEPT ![p] = "defer"]
    /\ UNCHANGED <<now, env, messages, startTime, currentTime, selectedIds,
                   additional, addDeferred, sendResults, pureVars, webVars, histVars, photoVars, migVars, pollVars, tickVars>>

\* processor.ts:67-69: a message deferred by the first pass is pushed by
\* one tick interval
Defer(p) ==
    /\ pc[p] = "defer"
    /\ idx[p] <= Len(deferred[p])
    /\ messages' = updateMessageProcessingDate(deferred[p][idx[p]].id,
                       deferred[p][idx[p]].processingDate + TickMs)
    /\ idx' = [idx EXCEPT ![p] = @ + 1]
    /\ UNCHANGED <<now, env, pc, startTime, currentTime, batch, selected, deferred,
                   selectedIds, additional, addDeferred, sendResults, pureVars, webVars, histVars, photoVars, migVars, pollVars, tickVars>>

\* processor.ts:78-80: a message deferred by a fill-up round is pushed by
\* one tick interval
AddDefer(p) ==
    /\ pc[p] = "addDefer"
    /\ idx[p] <= Len(addDeferred[p])
    /\ messages' = updateMessageProcessingDate(addDeferred[p][idx[p]].id,
                       addDeferred[p][idx[p]].processingDate + TickMs)
    /\ idx' = [idx EXCEPT ![p] = @ + 1]
    /\ UNCHANGED <<now, env, pc, startTime, currentTime, batch, selected, deferred,
                   selectedIds, additional, addDeferred, sendResults, pureVars, webVars, histVars, photoVars, migVars, pollVars, tickVars>>

\* processor.ts:72: the ids selected by the first pass
DeferDone(p) ==
    /\ pc[p] = "defer"
    /\ idx[p] > Len(deferred[p])
    /\ selectedIds' = [selectedIds EXCEPT ![p] = Ids(selected[p])]
    /\ pc' = [pc EXCEPT ![p] = "fill"]
    /\ UNCHANGED <<now, env, messages, startTime, currentTime, batch, selected,
                   deferred, additional, addDeferred, sendResults, idx, pureVars, webVars, histVars, photoVars, migVars, pollVars, tickVars>>

\* processor.ts:78-81: the deferrals of a fill-up round are done
AddDeferDone(p) ==
    /\ pc[p] = "addDefer"
    /\ idx[p] > Len(addDeferred[p])
    /\ pc' = [pc EXCEPT ![p] = "fill"]
    /\ UNCHANGED <<now, env, messages, startTime, currentTime, batch, selected,
                   deferred, selectedIds, additional, addDeferred, sendResults, idx, pureVars, webVars, histVars, photoVars, migVars, pollVars, tickVars>>

\* processor.ts:73: the batch is full
FillFull(p) ==
    /\ pc[p] = "fill"
    /\ ~(Len(selected[p]) < getConfig(env).RATE_LIMIT_GLOBAL)
    /\ pc' = [pc EXCEPT ![p] = "send"]
    /\ UNCHANGED <<now, env, messages, startTime, currentTime, batch, selected,
                   deferred, selectedIds, additional, addDeferred, sendResults, idx, pureVars, webVars, histVars, photoVars, migVars, pollVars, tickVars>>

\* processor.ts:73-75: the fill-up query returns nothing
FillEmpty(p) ==
    /\ pc[p] = "fill"
    /\ Len(selected[p]) < getConfig(env).RATE_LIMIT_GLOBAL
    /\ <<>> \in getUnprocessedMessagesExcluding(currentTime[p], selectedIds[p],
                    getConfig(env).RATE_LIMIT_GLOBAL - Len(selected[p]))
    /\ rounds' = [rounds EXCEPT ![p] = @ + 1]
    /\ pc' = [pc EXCEPT ![p] = "send"]
    /\ UNCHANGED <<now, env, messages, startTime, currentTime, batch, selected,
                   deferred, selectedIds, additional, addDeferred, sendResults, idx,
                   calls, thrown, pureVars, webVars, histVars, photoVars, migVars, pollVars>>

\* processor.ts:73-77: a fill-up round
FillQuery(p) ==
    /\ pc[p] = "fill"
    /\ Len(selected[p]) < getConfig(env).RATE_LIMIT_GLOBAL
    /\ \E more \in getUnprocessedMessagesExcluding(currentTime[p], selectedIds[p],
                       getConfig(env).RATE_LIMIT_GLOBAL - Len(selected[p])) :
        /\ more # <<>>
        /\ additional' = [additional EXCEPT ![p] = more]
        /\ selected' = [selected EXCEPT ![p] = @ \o applyRateLimit(more, env).selected]
        /\ addDeferred' = [addDeferred EXCEPT ![p] = applyRateLimit(more, env).deferred]
    /\ idx' = [idx EXCEPT ![p] = 1]
    /\ rounds' = [rounds EXCEPT ![p] = @ + 1]
    /\ pc' = [pc EXCEPT ![p] = "addDefer"]
    /\ UNCHANGED <<now, env, messages, startTime, currentTime, batch, deferred,
                   selectedIds, sendResults, calls, thrown, pureVars, webVars, histVars, photoVars, migVars, pollVars>>

\* how long the sends of a tick may take in all (ms): a quarter of a tick,
\* the whole processing window
SendTimes == {TickMs \div 4, ProcessingDuration}

\* processor.ts:84-86: selected.map starts one callback per selected message;
\* each runs to its first await, the request of sendTextMessage
\* (telegram.ts:49), so every request is issued before anything else happens
Send(p) ==
    /\ pc[p] = "send"
    /\ calls' = [calls EXCEPT ![p] = [j \in DOMAIN selected[p] |-> "sent"]]
    /\ pc' = [pc EXCEPT ![p] = "await"]
    /\ UNCHANGED <<now, env, messages, startTime, currentTime, batch, selected,
                   deferred, selectedIds, additional, addDeferred, sendResults, idx,
                   rounds, thrown, pureVars, webVars, histVars, photoVars, migVars, pollVars>>

\* telegram.ts:49-58: the request of callback j ends; ok is data.ok, and a
\* network error or an unreadable answer is caught and gives success: false
SendReturns(p, j, ok) ==
    /\ pc[p] = "await"
    /\ j \in DOMAIN calls[p]
    /\ calls[p][j] = "sent"
    /\ calls' = [calls EXCEPT ![p][j] = IF ok THEN "ok" ELSE "fail"]
    /\ delivered' = IF ok THEN delivered \cup {selected[p][j].id} ELSE delivered
    /\ UNCHANGED <<now, env, messages, pc, startTime, currentTime, batch, selected,
                   deferred, selectedIds, additional, addDeferred, sendResults, idx,
                   rounds, thrown, pureVars, webVars, pollVars, photoVars, migVars>>

\* SendsSettled that does not wait for every callback: Promise.race in the
\* place of Promise.all, a send not back yet counted as failed
SendsSettledAny(p) ==
    /\ pc[p] = "await"
    /\ \E j \in DOMAIN calls[p] : calls[p][j] # "sent"
    /\ sendResults' = [sendResults EXCEPT ![p] = [j \in DOMAIN calls[p] |-> calls[p][j] = "ok"]]
    /\ \E d \in SendTimes : now' = now + d
    /\ idx' = [idx EXCEPT ![p] = 1]
    /\ pc' = [pc EXCEPT ![p] = "outcome"]
    /\ UNCHANGED <<env, messages, startTime, currentTime, batch, selected,
                   deferred, selectedIds, additional, addDeferred,
                   rounds, calls, thrown, pureVars, webVars, histVars, photoVars, migVars, pollVars>>

\* processor.ts:84-89: Promise.all resolves once every callback has
\* returned, d ms after the requests were issued
SendsSettled(p) ==
    /\ pc[p] = "await"
    /\ \A j \in DOMAIN calls[p] : calls[p][j] # "sent"
    /\ sendResults' = [sendResults EXCEPT ![p] = [j \in DOMAIN calls[p] |-> calls[p][j] = "ok"]]
    /\ \E d \in SendTimes : now' = now + d
    /\ idx' = [idx EXCEPT ![p] = 1]
    /\ pc' = [pc EXCEPT ![p] = "outcome"]
    /\ UNCHANGED <<env, messages, startTime, currentTime, batch, selected,
                   deferred, selectedIds, additional, addDeferred,
                   rounds, calls, thrown, pureVars, webVars, histVars, photoVars, migVars, pollVars>>

\* OutcomeSuccess with the mark of processor.ts:95 lost
OutcomeSuccessUnmarked(p) ==
    /\ pc[p] = "outcome"
    /\ idx[p] <= Len(selected[p])
    /\ sendResults[p][idx[p]]
    /\ idx' = [idx EXCEPT ![p] = @ + 1]
    /\ UNCHANGED <<now, env, messages, pc, startTime, currentTime, batch, selected,
                   deferred, selectedIds, additional, addDeferred, sendResults,
                   pureVars, webVars, histVars, photoVars, migVars, pollVars, tickVars>>

\* processor.ts:93-95: a successful send is recorded
OutcomeSuccess(p) ==
    /\ pc[p] = "outcome"
    /\ idx[p] <= Len(selected[p])
    /\ sendResults[p][idx[p]]
    /\ messages' = markMessageProcessed(selected[p][idx[p]].id)
    /\ idx' = [idx EXCEPT ![p] = @ + 1]
    /\ UNCHANGED <<now, env, pc, startTime, currentTime, batch, selected, deferred,
                   selectedIds, additional, addDeferred, sendResults, pureVars, webVars, histVars, photoVars, migVars, pollVars, tickVars>>

\* OutcomeFailure that writes the row back as it was read, with the new
\* attempts and processingDate: a stale processed = 0 goes with it
OutcomeFailureWritesRow(p) ==
    /\ pc[p] = "outcome"
    /\ idx[p] <= Len(selected[p])
    /\ ~sendResults[p][idx[p]]
    /\ LET msg == selected[p][idx[p]]
           newAttempts == msg.attempts + 1
           delayMinutes == DelayMinutes(newAttempts)
           newProcessingDate == now + delayMinutes * MinuteMs
       IN  messages' = [messages EXCEPT ![msg.id] =
                           [msg EXCEPT !.attempts = newAttempts,
                                       !.processingDate = newProcessingDate]]
    /\ idx' = [idx EXCEPT ![p] = @ + 1]
    /\ UNCHANGED <<now, env, pc, startTime, currentTime, batch, selected, deferred,
                   selectedIds, additional, addDeferred, sendResults, pureVars, webVars, histVars, photoVars, migVars, pollVars, tickVars>>

\* processor.ts:96-102: a failed send is rescheduled
OutcomeFailure(p) ==
    /\ pc[p] = "outcome"
    /\ idx[p] <= Len(selected[p])
    /\ ~sendResults[p][idx[p]]
    /\ LET msg == selected[p][idx[p]]
           newAttempts == msg.attempts + 1
           delayMinutes == DelayMinutes(newAttempts)
           newProcessingDate == now + delayMinutes * MinuteMs
       IN  messages' = updateMessageRetry(msg.id, newAttempts, newProcessingDate)
    /\ idx' = [idx EXCEPT ![p] = @ + 1]
    /\ UNCHANGED <<now, env, pc, startTime, currentTime, batch, selected, deferred,
                   selectedIds, additional, addDeferred, sendResults, pureVars, webVars, histVars, photoVars, migVars, pollVars, tickVars>>

\* processor.ts:92, 106: every outcome is applied
OutcomeDone(p) ==
    /\ pc[p] = "outcome"
    /\ idx[p] > Len(selected[p])
    /\ pc' = [pc EXCEPT ![p] = "sleep"]
    /\ UNCHANGED <<now, env, messages, startTime, currentTime, batch, selected,
                   deferred, selectedIds, additional, addDeferred, sendResults, idx, pureVars, webVars, histVars, photoVars, migVars, pollVars, tickVars>>

\* sleepUntilNextSecond that returns at once
SleepDelayNone(t) == 0

\* SleepDelay to the next half second: 500 - (now % 500)
SleepDelayHalf(t) == TickMs \div 2 - (t % (TickMs \div 2))

\* processor.ts:27-31: the delay sleepUntilNextSecond asks for
SleepDelay(t) == TickMs - (t % TickMs)

\* processor.ts:59, 106: the loop sleeps to the next second boundary
sleepUntilNextSecond(p) ==
    /\ pc[p] = "sleep"
    /\ now' = now + SleepDelay(now)
    /\ pc' = [pc EXCEPT ![p] = "loop"]
    /\ UNCHANGED <<env, messages, startTime, currentTime, batch, selected, deferred,
                   selectedIds, additional, addDeferred, sendResults, idx, pureVars, webVars, histVars, photoVars, migVars, pollVars, tickVars>>

\* StoreError caught and logged, the loop going on to its sleep: a try
\* around the body of the while loop
StoreErrorSwallowed(p) ==
    /\ \/ pc[p] = "query"
       \/ pc[p] = "defer" /\ idx[p] <= Len(deferred[p])
       \/ pc[p] = "fill" /\ Len(selected[p]) < getConfig(env).RATE_LIMIT_GLOBAL
       \/ pc[p] = "addDefer" /\ idx[p] <= Len(addDeferred[p])
       \/ pc[p] = "outcome" /\ idx[p] <= Len(selected[p])
    /\ thrown' = [thrown EXCEPT ![p] = TRUE]
    /\ pc' = [pc EXCEPT ![p] = "sleep"]
    /\ UNCHANGED <<now, env, messages, startTime, currentTime, batch, selected,
                   deferred, selectedIds, additional, addDeferred, sendResults, idx,
                   rounds, calls, pureVars, webVars, histVars, photoVars, migVars, pollVars>>

\* a store call of processMessages throws: processor.ts:57, 68, 74, 79, 95
\* and 101 are awaited outside any try, so the error ends the invocation
StoreError(p) ==
    /\ \/ pc[p] = "query"
       \/ pc[p] = "defer" /\ idx[p] <= Len(deferred[p])
       \/ pc[p] = "fill" /\ Len(selected[p]) < getConfig(env).RATE_LIMIT_GLOBAL
       \/ pc[p] = "addDefer" /\ idx[p] <= Len(addDeferred[p])
       \/ pc[p] = "outcome" /\ idx[p] <= Len(selected[p])
    /\ thrown' = [thrown EXCEPT ![p] = TRUE]
    /\ pc' = [pc EXCEPT ![p] = "rejected"]
    /\ UNCHANGED <<now, env, messages, startTime, currentTime, batch, selected,
                   deferred, selectedIds, additional, addDeferred, sendResults, idx,
                   rounds, calls, pureVars, webVars, histVars, photoVars, migVars, pollVars>>

\* processor.ts:55-107: the body of the while loop
TickBody(p) ==
    \/ QueryEmpty(p) \/ Query(p)
    \/ Defer(p) \/ DeferDone(p) \/ AddDefer(p) \/ AddDeferDone(p)
    \/ FillFull(p) \/ FillEmpty(p) \/ FillQuery(p)
    \/ Send(p) \/ (\E j \in DOMAIN calls[p], ok \in BOOLEAN : SendReturns(p, j, ok))
    \/ SendsSettled(p)
    \/ OutcomeSuccess(p) \/ OutcomeFailure(p) \/ OutcomeDone(p)
    \/ sleepUntilNextSecond(p)

processMessages(p) == Start(p) \/ Tick(p) \/ Exit(p) \/ TickBody(p)

----------------------------------------------------------------------------
(* src/workflow.ts and src/messageHandler.ts: ingestion *)

\* what the save step hands on (workflow.ts:22, 67): the status of the
\* response, the messageId, and the time the delay step starts
Context(status, messageId, t) ==
    [status |-> status, messageId |-> messageId, since |-> t]

\* runs whose save step gave messageId 0 and that the model follows at a time
MaxFailedRuns == 1

FailedRuns == {c \in contexts : c.messageId = 0}

\* handleIncomingMessage that answers 200 without the insert of line 92
handleIncomingMessageNoInsert(chatId) ==
    /\ Len(messages) < MaxRows
    /\ contexts' = contexts \cup {Context(200, Len(messages) + 1, now)}
    /\ UNCHANGED <<now, env, messages, loopVars, pureVars, responded, histVars, photoVars, migVars, pollVars>>

\* messageHandler.ts:20-95: a text message of a chat is stored and the
\* handler returns 200 with the id of the new row
handleIncomingMessage(chatId) ==
    /\ Len(messages) < MaxRows
    /\ messages' = insertMessage(NewRecord(chatId, now))
    /\ contexts' = contexts \cup {Context(200, Len(messages) + 1, now)}
    /\ UNCHANGED <<now, env, loopVars, pureVars, responded, histVars, photoVars, migVars, pollVars>>

\* messageHandler.ts:20-23: the update has no `message` field
NoMessageField ==
    /\ Cardinality(FailedRuns) < MaxFailedRuns
    /\ contexts' = contexts \cup {Context(400, 0, now)}
    /\ UNCHANGED <<now, env, messages, loopVars, pureVars, responded, histVars, photoVars, migVars, pollVars>>

\* messageHandler.ts:19-20, 31, 92, 96-98: an exception while the request
\* is parsed (the body is no JSON, the message has no chat) or while the row
\* is stored is caught.  When insertMessage threw, the INSERT may or may not
\* have taken effect.
HandlerCaught(chatId, stored) ==
    /\ Cardinality(FailedRuns) < MaxFailedRuns
    /\ IF stored
       THEN /\ Len(messages) < MaxRows
            /\ messages' = insertMessage(NewRecord(chatId, now))
       ELSE messages' = messages
    /\ contexts' = contexts \cup {Context(500, 0, now)}
    /\ UNCHANGED <<now, env, loopVars, pureVars, responded, histVars, photoVars, migVars, pollVars>>

\* updateMessageStep with the delay step of workflow.ts:32-38 lost
updateMessageStepNoDelay(id) ==
    /\ \E c \in contexts :
        /\ c.messageId = id
        /\ contexts' = contexts \ {c}
    /\ messages' = prependMessageContentAndMarkPrepared(id, "I have got your message: ")
    /\ responded' = responded \cup {id}
    /\ UNCHANGED <<now, env, loopVars, pureVars, histVars, photoVars, migVars, pollVars>>

\* workflow.ts:32-52, 66-69, index.ts:24-25: after the 15 s delay step of a
\* run, its update step with the messageId of its context; it is the last
\* step, so runWorkflow returns and fetch returns the response it was given
\* by the save step
updateMessageStep(id) ==
    /\ \E c \in contexts :
        /\ c.messageId = id
        /\ now >= c.since + DelayStepMs
        /\ contexts' = contexts \ {c}
    /\ messages' = prependMessageContentAndMarkPrepared(id, "I have got your message: ")
    /\ responded' = responded \cup {id}
    /\ UNCHANGED <<now, env, loopVars, pureVars, histVars, photoVars, migVars, pollVars>>

----------------------------------------------------------------------------
(* The dispatch engine on a store: one invocation at a time *)

EnvOf(private, channel, global) ==
    [RATE_LIMIT_PRIVATE |-> private, RATE_LIMIT_CHANNEL |-> channel,
     RATE_LIMIT_GLOBAL |-> global]

\* the bindings of the model's deployments: 1 per private chat, 2 per
\* channel, and 2 or 3 in all per tick
SpecEnvs == {EnvOf(<<"1">>, <<"2">>, g) : g \in {<<"2">>, <<"3">>}}

\* rows left in the table by earlier invocations: prepared, not yet
\* dispatched, due since long (prepared 15 s after receipt, or a retry that
\* came due) or since the last half second
InitRow(chatId, attempts, age) ==
    [NewRecord(chatId, 0) EXCEPT !.prepared = TRUE, !.attempts = attempts,
                                 !.processingDate = age,
                                 !.content = <<"I have got your message: ">> \o @]

\* the first invocation starts off a second boundary
InitClocks == {DelayStepMs + TickMs \div 2}
InitRows ==
    <<InitRow(7, 0, 0), InitRow(7, CapMinutes \div 32 - 1, 0),
      InitRow(7, 1, DelayStepMs + TickMs \div 4), InitRow(-100, 0, 0)>>

\* the tables of n rows, one for each choice of n rows (the order of the
\* rows in the table makes no difference to any query)
InitTables(n) ==
    {[i \in 1..n |-> InitRows[t[i]]] :
        t \in {u \in [1..n -> DOMAIN InitRows] : \A i, j \in 1..n : i < j => u[i] <= u[j]}}

WithIds(rows) == [i \in DOMAIN rows |-> [rows[i] EXCEPT !.id = i]]

Init ==
    /\ now \in InitClocks
    /\ env \in SpecEnvs
    /\ messages \in {WithIds(t) : t \in InitTables(MaxRows - 1) \cup InitTables(MaxRows)}
    /\ pc = Idle
    /\ startTime = NoTime
    /\ currentTime = NoTime
    /\ batch = NoSeq
    /\ selected = NoSeq
    /\ deferred = NoSeq
    /\ selectedIds = NoSeq
    /\ additional = NoSeq
    /\ addDeferred = NoSeq
    /\ sendResults = NoSeq
    /\ idx = NoTime
    /\ rounds = NoTime
    /\ calls = NoSeq
    /\ thrown = NoFlag
    /\ rlIn = <<>>
    /\ rlOut = <<>>
    /\ delays = <<>>
    /\ responded = {m \in DOMAIN messages : messages[m].prepared}
    /\ contexts = {}
    /\ delivered = {}
    /\ PollOff
    /\ PhotoOff
    /\ MigOff

\* the invocations and ticks that are followed
StartFollowed == now <= MaxNow
TickFollowed(p) == now - startTime[p] < MaxTicks * TickMs

Next ==
    \/ StartFollowed /\ Start(1)
    \/ TickFollowed(1) /\ Tick(1)
    \/ Exit(1)
    \/ TickBody(1)
    \/ \E chatId \in ChatIds : handleIncomingMessage(chatId)
    \/ \E id \in 1..MaxRows : updateMessageStep(id)

Spec == Init /\ [][Next]_vars

----------------------------------------------------------------------------
(* The same with updates that the handler cannot store: no `message`       *)
(* field, a body that does not parse, a store call that throws             *)

\* a backlog of two or three rows of the private chat, a fresh one first,
\* under 3 in all per tick
InitWeb ==
    /\ Init
    /\ messages[1] = WithIds(InitRows)[1]
    /\ \A m \in DOMAIN messages : messages[m].chatId = InitRows[1].chatId
    /\ getConfig(env).RATE_LIMIT_GLOBAL = 3

NextWeb ==
    \/ Next
    \/ NoMessageField
    \/ \E chatId \in ChatIds, stored \in BOOLEAN : HandlerCaught(chatId, stored)
    \/ updateMessageStep(0)

SpecWeb == InitWeb /\ [][NextWeb]_vars

----------------------------------------------------------------------------
(* The dispatch loop on a backlog larger than the global ceiling, nothing  *)
(* coming in                                                               *)

\* three messages of the private chat due since long, two of the channel
\* due since a quarter of a second
BacklogRows ==
    <<InitRow(7, 0, 0), InitRow(7, 0, 0), InitRow(7, 0, 0),
      InitRow(-100, 0, DelayStepMs + TickMs \div 4),
      InitRow(-100, 0, DelayStepMs + TickMs \div 4)>>

\* the backlog with or without the last message of the channel, under 1
\* per private chat, 2 per channel, 3 in all per tick
InitBacklog ==
    /\ now \in InitClocks
    /\ env = EnvOf(<<"1">>, <<"2">>, <<"3">>)
    /\ messages \in {WithIds(BacklogRows),
                     WithIds(SubSeq(BacklogRows, 1, Len(BacklogRows) - 1))}
    /\ pc = Idle
    /\ startTime = NoTime
    /\ currentTime = NoTime
    /\ batch = NoSeq
    /\ selected = NoSeq
    /\ deferred = NoSeq
    /\ selectedIds = NoSeq
    /\ additional = NoSeq
    /\ addDeferred = NoSeq
    /\ sendResults = NoSeq
    /\ idx = NoTime
    /\ rounds = NoTime
    /\ calls = NoSeq
    /\ thrown = NoFlag
    /\ rlIn = <<>>
    /\ rlOut = <<>>
    /\ delays = <<>>
    /\ responded = {m \in DOMAIN messages : messages[m].prepared}
    /\ contexts = {}
    /\ delivered = {}
    /\ PollOff
    /\ PhotoOff
    /\ MigOff

NextBacklog ==
    \/ StartFollowed /\ Start(1)
    \/ TickFollowed(1) /\ Tick(1)
    \/ Exit(1)
    \/ TickBody(1)

SpecBacklog == InitBacklog /\ [][NextBacklog]_vars

----------------------------------------------------------------------------
(* Two invocations of processMessages that overlap on one store: the cron  *)
(* trigger of index.ts:42 fires while the invocation before it, held up by *)
(* its sends, is still in its window                                       *)

\* three messages of the private chat, due one after the other, the last
\* since a second and a half
OverlapRows ==
    <<InitRow(7, 0, 0), InitRow(7, 0, TickMs), InitRow(7, 0, DelayStepMs - TickMs)>>

\* under 1 per private chat and 3 in all per tick
InitTwo ==
    /\ now \in InitClocks
    /\ env = EnvOf(<<"1">>, <<"2">>, <<"3">>)
    /\ messages = WithIds(OverlapRows)
    /\ pc = Idle
    /\ startTime = NoTime
    /\ currentTime = NoTime
    /\ batch = NoSeq
    /\ selected = NoSeq
    /\ deferred = NoSeq
    /\ selectedIds = NoSeq
    /\ additional = NoSeq
    /\ addDeferred = NoSeq
    /\ sendResults = NoSeq
    /\ idx = NoTime
    /\ rounds = NoTime
    /\ calls = NoSeq
    /\ thrown = NoFlag
    /\ rlIn = <<>>
    /\ rlOut = <<>>
    /\ delays = <<>>
    /\ responded = {m \in DOMAIN messages : messages[m].prepared}
    /\ contexts = {}
    /\ delivered = {}
    /\ PollOff
    /\ PhotoOff
    /\ MigOff

\* each invocation is started once and followed through its first tick;
\* the second one is started while the first one is running
StartOnce(p) == startTime[p] = 0
Overlapping(p) == \A q \in Procs : q < p => pc[q] # "idle"
FirstTick(p) == currentTime[p] < startTime[p]

NextTwo ==
    \E p \in Procs :
        \/ StartOnce(p) /\ Overlapping(p) /\ Start(p)
        \/ FirstTick(p) /\ Tick(p)
        \/ Exit(p)
        \/ TickBody(p)

SpecTwo == InitTwo /\ [][NextTwo]_vars

----------------------------------------------------------------------------
(* The same with a store whose calls may fail; an invocation that ended  *)
(* with an error is followed no further                                 *)

NextFail == Next \/ StoreError(1)

SpecFail == Init /\ [][NextFail]_vars

----------------------------------------------------------------------------
(* The dispatch loop invoked again and again, every tick of every window  *)
(* followed, with a transport that recovers and calls that return         *)

\* the time by which every retry allowed by MaxFailures has come due, with
\* a window to spare
LiveHorizon == (2 ^ (MaxFailures + 1)) * MinuteMs + ProcessingDuration

\* a send fails only for a message read with fewer than MaxFailures attempts
TransportRecovers(p) ==
    \A j \in DOMAIN calls'[p] :
        (calls'[p][j] = "fail" /\ calls[p][j] = "sent") =>
            selected[p][j].attempts < MaxFailures

\* the invocations that are followed
StartLive == now <= LiveHorizon

\* the backlog left by earlier invocations: a full table with a fresh
\* message of the private chat first and one of the channel last, under the
\* tighter of the global ceilings
InitLive ==
    /\ Init
    /\ Len(messages) = MaxRows
    /\ messages[1] = WithIds(InitRows)[1]
    /\ messages[MaxRows].chatId = InitRows[Len(InitRows)].chatId
    /\ getConfig(env).RATE_LIMIT_GLOBAL = 2

NextLive ==
    \/ StartLive /\ Start(1)
    \/ Tick(1)
    \/ Exit(1)
    \/ TickBody(1) /\ TransportRecovers(1)

\* scheduled() calls the loop again and again, and every call made by the
\* loop returns
SpecLive == InitLive /\ [][NextLive]_vars /\ WF_vars(NextLive)

----------------------------------------------------------------------------
(* The pure functions on their own: applyRateLimit on any batch, the       *)
(* backoff delay for any attempt count                                     *)

RLChatIds == {7, 8, -100}
RLDates == {1000, 2000}

\* a batch as a due query hands it over: rows with distinct ids
RLBatches ==
    UNION {{WithIds(t) : t \in [1..n -> {InitRow(c, 0, d) : c \in RLChatIds, d \in RLDates}]}
           : n \in 0..MaxBatch}

\* valid deployments: ceilings of 1 or 2, or unset (the defaults apply)
RLEnvs ==
    {EnvOf(p, c, <<"3", "0">>) : p \in {<<"1">>, <<"2">>, <<>>}, c \in {<<"1">>, <<"2">>, <<>>}}

\* the pure functions before any call, under one of the deployments envs
InitPure(envs) ==
    /\ now = 0
    /\ env \in envs
    /\ messages = <<>>
    /\ pc = Idle
    /\ startTime = NoTime
    /\ currentTime = NoTime
    /\ batch = NoSeq
    /\ selected = NoSeq
    /\ deferred = NoSeq
    /\ selectedIds = NoSeq
    /\ additional = NoSeq
    /\ addDeferred = NoSeq
    /\ sendResults = NoSeq
    /\ idx = NoTime
    /\ rounds = NoTime
    /\ calls = NoSeq
    /\ thrown = NoFlag
    /\ rlIn \in RLBatches
    /\ rlOut = <<>>
    /\ delays = <<>>
    /\ responded = {}
    /\ contexts = {}
    /\ delivered = {}
    /\ PollOff
    /\ PhotoOff
    /\ MigOff

InitRL == InitPure(RLEnvs)

\* rateLimiter.ts:22-55 called on a batch
CallRateLimit ==
    /\ rlOut = <<>>
    /\ rlOut' = <<applyRateLimit(rlIn, env)>>
    /\ rlIn' = ArgumentAfterCall(rlIn, env)
    /\ UNCHANGED <<now, env, messages, loopVars, delays, webVars, histVars, photoVars, migVars, pollVars>>

\* processor.ts:98-99 for the next attempt count
CallBackoff ==
    /\ Len(delays) < MaxN
    /\ delays' = Append(delays, DelayMinutes(Len(delays) + 1))
    /\ UNCHANGED <<now, env, messages, loopVars, rlIn, rlOut, webVars, histVars, photoVars, migVars, pollVars>>

NextRL == CallRateLimit \/ CallBackoff

SpecRL == InitRL /\ [][NextRL]_vars

\* deployments with a ceiling of a chat class set to 0 or to -1
RLMisEnvs ==
    {EnvOf(p, c, <<"3", "0">>) : p \in {<<"0">>, <<"-", "1">>, <<"1">>},
                                  c \in {<<"0">>, <<"-", "1">>, <<"2">>}}
        \ {EnvOf(<<"1">>, <<"2">>, <<"3", "0">>)}

InitRLMis == InitPure(RLMisEnvs)

SpecRLMis == InitRLMis /\ [][NextRL]_vars

----------------------------------------------------------------------------
(* src/polling.ts: development mode, the updates fetched by long polling   *)
(* and handed to the workflow one after the other                          *)

\* updates that reach the bot in the model; update i has update_id i
MaxUpdates == 3

Update(i) == [update_id |-> i, message |-> arrived[i]]

\* Telegram's getUpdates: the updates with update_id >= offset, ascending
\* (with offset 0, every update not confirmed yet)
TelegramUpdates(off) ==
    LET first == Max(off, 1)
    IN  [k \in 1..(Len(arrived) - first + 1) |-> Update(first + k - 1)]

\* an update reaches Telegram, with or without a `message` field
TgArrive(hasMessage) ==
    /\ Len(arrived) < MaxUpdates
    /\ arrived' = Append(arrived, hasMessage)
    /\ UNCHANGED <<now, env, messages, loopVars, pureVars, webVars, histVars, photoVars, migVars,
                   pollPc, offset, updates, upos, passed, runThrew>>

\* polling.ts:55-63: the loop starts with offset 0
startPolling ==
    /\ pollPc = "off"
    /\ offset' = 0
    /\ pollPc' = "get"
    /\ UNCHANGED <<now, env, messages, loopVars, pureVars, webVars, histVars, photoVars, migVars,
                   updates, upos, passed, arrived, runThrew>>

\* polling.ts:37-50, 65: getUpdates returns the result of Telegram, or
\* nothing when the request failed or the answer was not ok
getUpdates(ok) ==
    /\ pollPc = "get"
    /\ updates' = IF ok THEN TelegramUpdates(offset) ELSE <<>>
    /\ upos' = 1
    /\ pollPc' = "each"
    /\ UNCHANGED <<now, env, messages, loopVars, pureVars, webVars, histVars, photoVars, migVars,
                   offset, passed, arrived, runThrew>>

\* the waits of the polling loop that are followed: those of its first
\* MaxPollWaits seconds
MaxPollWaits == 2
PollFollowed == now < MaxPollWaits * TickMs

\* polling.ts:88-90: no update came, the loop waits a second
PollWait ==
    /\ pollPc = "each"
    /\ updates = <<>>
    /\ PollFollowed
    /\ now' = now + TickMs
    /\ pollPc' = "get"
    /\ UNCHANGED <<env, messages, loopVars, pureVars, webVars, histVars, photoVars, migVars,
                   offset, updates, upos, passed, arrived, runThrew>>

\* polling.ts:69, 84: an update without a `message` field is stepped over
PollSkip ==
    /\ pollPc = "each"
    /\ upos <= Len(updates)
    /\ ~updates[upos].message
    /\ offset' = updates[upos].update_id + 1
    /\ upos' = upos + 1
    /\ UNCHANGED <<now, env, messages, loopVars, pureVars, webVars, histVars, photoVars, migVars,
                   pollPc, updates, passed, arrived, runThrew>>

\* polling.ts:69-77, workflow.ts:19-25: an update with a message is handed
\* to runWorkflow, whose save step stores the row, or catches an exception
\* (messageHandler.ts:96-98)
PollSave(chatId, stored) ==
    /\ pollPc = "each"
    /\ upos <= Len(updates)
    /\ updates[upos].message
    /\ passed' = Append(passed, updates[upos].update_id)
    /\ IF stored
       THEN /\ Len(messages) < MaxRows
            /\ messages' = insertMessage(NewRecord(chatId, now))
            /\ contexts' = contexts \cup {Context(200, Len(messages) + 1, now)}
       ELSE /\ messages' = messages
            /\ contexts' = contexts \cup {Context(500, 0, now)}
    /\ pollPc' = "run"
    /\ UNCHANGED <<now, env, loopVars, pureVars, responded, histVars, photoVars, migVars,
                   offset, updates, upos, arrived, runThrew>>

\* workflow.ts:32-38: the timer of the delay step of a run fires
delayStep ==
    /\ \E c \in contexts :
        /\ now < c.since + DelayStepMs
        /\ now' = c.since + DelayStepMs
    /\ UNCHANGED <<env, messages, loopVars, pureVars, webVars, histVars, photoVars, migVars, pollVars>>

\* workflow.ts:44-52: the store call of the update step of a run throws,
\* and runWorkflow with it
UpdateStepThrows(id) ==
    /\ \E c \in contexts :
        /\ c.messageId = id
        /\ now >= c.since + DelayStepMs
        /\ contexts' = contexts \ {c}
    /\ runThrew' = TRUE
    /\ UNCHANGED <<now, env, messages, loopVars, pureVars, responded, histVars, photoVars, migVars,
                   pollPc, offset, updates, upos, passed, arrived>>

\* PollRunDone with the assignment of line 84 moved into the try, after the
\* call: an update whose workflow threw keeps the offset where it was
PollRunDoneInTry ==
    /\ pollPc = "run"
    /\ contexts = {}
    /\ offset' = IF runThrew THEN offset ELSE updates[upos].update_id + 1
    /\ upos' = upos + 1
    /\ runThrew' = FALSE
    /\ pollPc' = "each"
    /\ UNCHANGED <<now, env, messages, loopVars, pureVars, webVars, histVars, photoVars, migVars,
                   updates, passed, arrived>>

\* polling.ts:76-84: runWorkflow has returned or thrown (the error is caught
\* and logged), and the offset moves past the update
PollRunDone ==
    /\ pollPc = "run"
    /\ contexts = {}
    /\ offset' = updates[upos].update_id + 1
    /\ upos' = upos + 1
    /\ runThrew' = FALSE
    /\ pollPc' = "each"
    /\ UNCHANGED <<now, env, messages, loopVars, pureVars, webVars, histVars, photoVars, migVars,
                   updates, passed, arrived>>

\* polling.ts:63, 67, 88: every update of the batch is handled, the loop
\* asks for the next batch
PollBatchDone ==
    /\ pollPc = "each"
    /\ updates # <<>>
    /\ upos > Len(updates)
    /\ pollPc' = "get"
    /\ UNCHANGED <<now, env, messages, loopVars, pureVars, webVars, histVars, photoVars, migVars,
                   offset, updates, upos, passed, arrived, runThrew>>

\* an empty store, the bindings of a deployment in development mode
InitPoll == InitPure({EnvOf(<<"1">>, <<"2">>, <<"3">>)}) /\ rlIn = <<>>

NextPoll ==
    \/ \E hasMessage \in BOOLEAN : TgArrive(hasMessage)
    \/ startPolling
    \/ \E ok \in BOOLEAN : getUpdates(ok)
    \/ PollWait
    \/ PollSkip
    \/ \E chatId \in ChatIds, stored \in BOOLEAN : PollSave(chatId, stored)
    \/ delayStep
    \/ \E id \in 0..MaxRows : updateMessageStep(id)
    \/ \E id \in 0..MaxRows : UpdateStepThrows(id)
    \/ PollRunDone
    \/ PollBatchDone

SpecPoll == InitPoll /\ [][NextPoll]_vars

----------------------------------------------------------------------------
(* src/telegram.ts: the sends of photo messages, on a file table and a     *)
(* bucket as an earlier deployment left them                               *)

\* calls of sendPhotoMessage in the model
MaxSends == 3

\* a key of "file_identifiers" has no row ("none"), a row with
\* telegramFileId NULL ("null"), or a row with a file id
HasRecord(k) == k \in Keys /\ files[k] # "none"

\* db.ts:115-119: is there a row with this telegramFileId
getFileRecordByTelegramId(telegramFileId) ==
    \E k \in Keys : files[k] = telegramFileId /\ telegramFileId \in FileIds

\* PhotoRoute that takes no notice of the file id on the row found by key
PhotoRouteAlwaysUploads(ref) ==
    IF getFileRecordByTelegramId(ref)
    THEN [how |-> "fileId", photo |-> ref]
    ELSE IF HasRecord(ref)
         THEN IF ref \in blobs
              THEN [how |-> "multipart", photo |-> ref]
              ELSE [how |-> "url", photo |-> ref]
         ELSE [how |-> "url", photo |-> ref]

\* telegram.ts:67-100: how the photo of a message with this fileReference
\* is sent
PhotoRoute(ref) ==
    IF getFileRecordByTelegramId(ref)
    THEN [how |-> "fileId", photo |-> ref]
    ELSE IF HasRecord(ref)
         THEN IF files[ref] # "null"
              THEN [how |-> "fileId", photo |-> files[ref]]
              ELSE IF ref \in blobs
                   THEN [how |-> "multipart", photo |-> ref]
                   ELSE [how |-> "url", photo |-> ref]
         ELSE [how |-> "url", photo |-> ref]

\* telegram.ts:67-100, up to the request to Telegram: the reads of the file
\* table and of the bucket, then the request is on its way
sendPhotoMessage(ref) ==
    /\ Len(sends) < MaxSends
    /\ sends' = Append(sends, [ref |-> ref, how |-> PhotoRoute(ref).how,
                               photo |-> PhotoRoute(ref).photo,
                               state |-> "sent", newFileId |-> "null"])
    /\ UNCHANGED <<now, env, messages, loopVars, pureVars, webVars, histVars,
                   pollVars, files, blobs, migVars>>

\* telegram.ts:116-126, 143-153, 173-190: the request of call i returns.
\* ok is data.ok; an upload that is ok and comes with a photo array records
\* its file id newId on the row of the key (db.ts:139-142), unless that
\* store call throws, which is caught as a failed send
PhotoReturns(i, ok, newId, recorded) ==
    /\ i \in DOMAIN sends
    /\ sends[i].state = "sent"
    /\ IF sends[i].how = "multipart" /\ ok /\ newId # "null"
       THEN IF recorded
            THEN /\ files' = [files EXCEPT ![sends[i].ref] = newId]
                 /\ sends' = [sends EXCEPT ![i].state = "ok", ![i].newFileId = newId]
            ELSE /\ files' = files
                 /\ sends' = [sends EXCEPT ![i].state = "fail"]
       ELSE /\ files' = files
            /\ sends' = [sends EXCEPT ![i].state = IF ok THEN "ok" ELSE "fail"]
    /\ UNCHANGED <<now, env, messages, loopVars, pureVars, webVars, histVars,
                   pollVars, blobs, migVars>>

\* what a message may carry as fileReference: a storage key, a Telegram
\* file id
FileReferences == Keys \cup FileIds

\* the file table and the bucket before the sends: any rows, any blobs
InitPhoto ==
    /\ now = 0
    /\ env = EnvOf(<<"1">>, <<"2">>, <<"3">>)
    /\ messages = <<>>
    /\ pc = Idle
    /\ startTime = NoTime
    /\ currentTime = NoTime
    /\ batch = NoSeq
    /\ selected = NoSeq
    /\ deferred = NoSeq
    /\ selectedIds = NoSeq
    /\ additional = NoSeq
    /\ addDeferred = NoSeq
    /\ sendResults = NoSeq
    /\ idx = NoTime
    /\ rounds = NoTime
    /\ calls = NoSeq
    /\ thrown = NoFlag
    /\ rlIn = <<>>
    /\ rlOut = <<>>
    /\ delays = <<>>
    /\ responded = {}
    /\ contexts = {}
    /\ delivered = {}
    /\ PollOff
    /\ files \in [Keys -> {"none", "null"} \cup FileIds]
    /\ blobs \in SUBSET Keys
    /\ sends = <<>>
    /\ MigOff

NextPhoto ==
    \/ \E ref \in FileReferences : sendPhotoMessage(ref)
    \/ \E i \in 1..MaxSends, ok \in BOOLEAN, newId \in FileIds \cup {"null"},
          recorded \in BOOLEAN : PhotoReturns(i, ok, newId, recorded)

SpecPhoto == InitPhoto /\ [][NextPhoto]_vars

----------------------------------------------------------------------------
(* src/migrations/migration_runner.ts: the migration files applied to the  *)
(* store, run after run                                                    *)

\* runs of the runner in the model
MaxRuns == 3

\* migration_runner.ts:18-29: the versions of the files NNN_*.sql of the
\* directory, sorted by file name (version i is the file numbered i - 1)
MigrationFiles == <<0, 1, 2>>

RECURSIVE FilterPending(_, _)
\* migrations.filter(m => !appliedVersions.includes(m.version))
FilterPending(migrations, appliedVersions) ==
    IF migrations = <<>> THEN <<>>
    ELSE (IF Head(migrations) \in appliedVersions THEN <<>> ELSE <<Head(migrations)>>)
         \o FilterPending(Tail(migrations), appliedVersions)

\* what a wrangler call for the versions gives: a JSON array with the
\* rows, an output without an array, an error
Outputs == {"json", "noArray", "error"}

\* migration_runner.ts:67-90: the versions read from schema_migrations;
\* none when the output holds no array (line 82) or anything threw (line 86)
getAppliedMigrations(out) == IF out = "json" THEN schema_migrations ELSE {}

\* migration_runner.ts:111-126: a run loads the files, reads the applied
\* versions and keeps the files whose version it has not read
runMigrations(out) ==
    /\ migPc = "idle"
    /\ runs < MaxRuns
    /\ runs' = runs + 1
    /\ pending' = FilterPending(MigrationFiles, getAppliedMigrations(out))
    /\ migPc' = IF pending' = <<>> THEN "idle" ELSE "apply"
    /\ UNCHANGED <<now, env, messages, loopVars, pureVars, webVars, histVars,
                   pollVars, photoVars, schema_migrations, appliedLog>>

\* migration_runner.ts:102-109, 129-133: the statements of the next pending
\* file are executed; the last one records the version
\* (INSERT OR IGNORE INTO schema_migrations, 000_initial.sql and the
\* template of create_migration.ts)
applyMigration ==
    /\ migPc = "apply"
    /\ pending # <<>>
    /\ appliedLog' = Append(appliedLog, [run |-> runs, version |-> Head(pending)])
    /\ schema_migrations' = schema_migrations \cup {Head(pending)}
    /\ pending' = Tail(pending)
    /\ migPc' = IF pending' = <<>> THEN "idle" ELSE "apply"
    /\ UNCHANGED <<now, env, messages, loopVars, pureVars, webVars, histVars,
                   pollVars, photoVars, runs>>

\* migration_runner.ts:41-43, 169-172: a statement of the next pending file
\* fails before the version is recorded; the run ends
applyMigrationFails ==
    /\ migPc = "apply"
    /\ pending # <<>>
    /\ pending' = <<>>
    /\ migPc' = "idle"
    /\ UNCHANGED <<now, env, messages, loopVars, pureVars, webVars, histVars,
                   pollVars, photoVars, schema_migrations, appliedLog, runs>>

\* migration_runner.ts:138-155: --rollback deletes the record of the last
\* version read
rollbackMigration(out) ==
    /\ migPc = "idle"
    /\ runs < MaxRuns
    /\ runs' = runs + 1
    /\ LET read == getAppliedMigrations(out)
       IN  schema_migrations' = IF read = {} THEN schema_migrations
                       ELSE schema_migrations \ {CHOOSE v \in read : \A w \in read : w <= v}
    /\ UNCHANGED <<now, env, messages, loopVars, pureVars, webVars, histVars,
                   pollVars, photoVars, migPc, pending, appliedLog>>

InitMig == InitPure({EnvOf(<<"1">>, <<"2">>, <<"3">>)}) /\ rlIn = <<>>

NextMig ==
    \/ \E out \in Outputs : runMigrations(out)
    \/ applyMigration
    \/ applyMigrationFails
    \/ \E out \in Outputs : rollbackMigration(out)

SpecMig == InitMig /\ [][NextMig]_vars

----------------------------------------------------------------------------
(* Properties *)

\* the number of messages of a chat in a list
CountChat(msgs, chatId) == Cardinality({j \in DOMAIN msgs : msgs[j].chatId = chatId})

\* the ceiling configured for the class of a chat
CeilingOfChat(chatId) ==
    IF ChatTypeOf(chatId) = "channel" THEN getConfig(env).RATE_LIMIT_CHANNEL
    ELSE getConfig(env).RATE_LIMIT_PRIVATE

GlobalCeiling == getConfig(env).RATE_LIMIT_GLOBAL

\* the store still holds a due row that was not selected
BacklogLeft(p) ==
    \E i \in Eligible(currentTime[p], {}) : i \notin Range(Ids(selected[p]))

\* C1: when the sends of a tick are issued, the first pass and the fill-up
\* rounds together have selected, for every chat, at most the ceiling of the
\* chat's class.
C1_PerChatCeilingPerTick ==
    pc[1] \in {"send", "outcome"} =>
        \A c \in ChatIds : CountChat(selected[1], c) <= CeilingOfChat(c)

\* C2: when the sends of a tick are issued, `selected` holds at most
\* RATE_LIMIT_GLOBAL messages.
C2_GlobalCeiling ==
    pc[1] \in {"send", "outcome"} => Len(selected[1]) <= GlobalCeiling

\* C2 happens: a fill-up round has filled the batch to the global ceiling
\* and the store holds more due rows
C2_Witness ==
    /\ pc[1] = "send"
    /\ Len(selected[1]) = GlobalCeiling
    /\ Len(selectedIds[1]) < GlobalCeiling
    /\ BacklogLeft(1)

\* C3: for every batch and every chat in it, applyRateLimit selects at most
\* the ceiling of the chat's class.
C3_RateLimiterCeiling ==
    rlOut # <<>> =>
        \A c \in RLChatIds : CountChat(rlOut[1].selected, c) <= CeilingOfChat(c)

\* C3 happens: a chat has more messages in the batch than its ceiling, and
\* exactly the ceiling is selected
C3_Witness ==
    /\ rlOut # <<>>
    /\ \E c \in RLChatIds :
        /\ CountChat(rlIn, c) > CeilingOfChat(c)
        /\ CountChat(rlOut[1].selected, c) = CeilingOfChat(c)

\* C4: applyRateLimit returns a partition of its input: every input message
\* is in exactly one of selected and deferred, once, nothing else is, the
\* lengths add up, and an empty input gives two empty outputs.
C4_Partition ==
    rlOut # <<>> =>
        LET out == rlOut[1].selected \o rlOut[1].deferred
        IN  /\ Len(rlOut[1].selected) + Len(rlOut[1].deferred) = Len(rlIn)
            /\ \A i \in DOMAIN rlIn :
                   Cardinality({j \in DOMAIN out : out[j] = rlIn[i]}) = 1
            /\ Range(out) \subseteq Range(rlIn)
            /\ (rlIn = <<>> => rlOut[1].selected = <<>> /\ rlOut[1].deferred = <<>>)

\* C4 happens: a batch is split into a selected and a deferred part
C4_Witness ==
    /\ rlOut # <<>>
    /\ rlOut[1].selected # <<>>
    /\ rlOut[1].deferred # <<>>
    /\ Len(rlIn) = MaxBatch

\* the outcome the dispatch loop is applying (processor.ts:92)
AtOutcome(p) == pc[p] = "outcome" /\ idx[p] <= Len(selected[p])

\* C5: the processed flag of a message goes to true only in the step of the
\* dispatch loop that applies a successful send of that message; the step
\* that applies a failed send sets no flag.
C5_ProcessedOnlyAfterSuccess ==
    [][\A m \in DOMAIN messages :
          (~messages[m].processed /\ messages'[m].processed) =>
              /\ AtOutcome(1)
              /\ selected[1][idx[1]].id = m
              /\ sendResults[1][idx[1]]]_vars

\* C5 happens: in one tick a success has been recorded and a failure has
\* been recorded, and the failed message is not marked
C5_Witness ==
    /\ pc[1] = "outcome"
    /\ \E j, k \in 1..(idx[1] - 1) :
        /\ sendResults[1][j]
        /\ messages[selected[1][j].id].processed
        /\ ~sendResults[1][k]
        /\ ~messages[selected[1][k].id].processed
        /\ messages[selected[1][k].id].attempts = selected[1][k].attempts + 1

\* the scheduling fields of row m change in the step
Rescheduled(m) ==
    \/ messages'[m].attempts # messages[m].attempts
    \/ messages'[m].processingDate # messages[m].processingDate

\* C6: once the processed flag of a message is true, no step writes its
\* attempts or its processingDate.
C6_DispatchedImmutable ==
    [][\A m \in DOMAIN messages : messages[m].processed => ~Rescheduled(m)]_vars

\* the current tick of invocation p has marked row m dispatched
MarkedThisTick(p, m) ==
    /\ pc[p] = "outcome"
    /\ \E j \in 1..(idx[p] - 1) : selected[p][j].id = m /\ sendResults[p][j]

\* C7: with one loop instance, a message that was dispatched in an earlier
\* tick is not returned by a due query and its attempts and processingDate
\* are not written.
C7_NoLaterTickMutation ==
    [][/\ \A m \in DOMAIN messages :
             (messages[m].processed /\ Rescheduled(m)) => MarkedThisTick(1, m)
       /\ batch'[1] # batch[1] =>
             \A j \in DOMAIN batch'[1] : ~messages[batch'[1][j].id].processed
       /\ additional'[1] # additional[1] =>
             \A j \in DOMAIN additional'[1] :
                 ~messages[additional'[1][j].id].processed]_vars

\* C7 happens: a later tick applies outcomes while the store holds a
\* message that an earlier tick dispatched
C7_Witness ==
    /\ pc[1] = "outcome"
    /\ idx[1] > 1
    /\ \E m \in DOMAIN messages :
        /\ messages[m].processed
        /\ m \notin Range(Ids(selected[1]))
        /\ messages[m].processingDate <= currentTime[1]

\* min(2^n, 256), written out
BackoffMinutes(n) == IF n >= 8 THEN 256 ELSE 2 ^ n

\* C8: the step that applies a failed send of a message read with
\* attempts = a stores attempts = a + 1 and processingDate = the time of the
\* step + min(2^(a+1), 256) minutes.
C8_FailureReschedules ==
    [][(AtOutcome(1) /\ idx'[1] = idx[1] + 1 /\ ~sendResults[1][idx[1]]) =>
          LET msg == selected[1][idx[1]]
          IN  /\ messages'[msg.id].attempts = msg.attempts + 1
              /\ messages'[msg.id].processingDate =
                     now + BackoffMinutes(msg.attempts + 1) * 60000]_vars

\* C8 happens: failures of a message read with attempts = 0 and of one read
\* with attempts = 7 have been stored, some time after the tick's query
C8_Witness ==
    /\ pc[1] = "outcome"
    /\ now > currentTime[1]
    /\ \E j, k \in 1..(idx[1] - 1) :
        /\ ~sendResults[1][j] /\ ~sendResults[1][k]
        /\ selected[1][j].attempts = 0
        /\ messages[selected[1][j].id].processingDate = now + 2 * 60000
        /\ selected[1][k].attempts = 7
        /\ messages[selected[1][k].id].processingDate = now + 256 * 60000

\* C9: the backoff delay never decreases from one attempt count to the next
\* and never exceeds 256 minutes.
C9_BackoffMonotoneCapped ==
    \A n \in DOMAIN delays :
        /\ delays[n] <= 256
        /\ n > 1 => delays[n] >= delays[n - 1]

\* C9 happens: the delays from 2 minutes up to the cap and past it have
\* been computed
C9_Witness ==
    /\ Len(delays) >= 9
    /\ delays[1] = 2
    /\ delays[8] = 256
    /\ delays[9] = 256

\* C10: when the sends of a tick are issued, every message the first pass
\* deferred has the processingDate it was read with plus one tick interval.
C10_DeferredPushedOnce ==
    pc[1] = "send" =>
        \A j \in DOMAIN deferred[1] :
            messages[deferred[1][j].id].processingDate =
                deferred[1][j].processingDate + 1000

\* a tick of this run has ended and the window is still open: the next
\* step of the loop starts the following tick at `now`
NextTickStarts(p) ==
    /\ pc[p] = "loop"
    /\ currentTime[p] >= startTime[p]
    /\ now - startTime[p] < ProcessingDuration

\* C11: when the tick after tick k starts, every message that the first
\* pass of tick k deferred (and that tick k did not send) has
\* processingDate <= the time of that start, the first tick of the run, which
\* starts off a second boundary, included.
C11_DeferredDueNextTick ==
    NextTickStarts(1) =>
        \A j \in DOMAIN deferred[1] :
            deferred[1][j].id \notin Range(Ids(selected[1])) =>
                messages[deferred[1][j].id].processingDate <= now

\* the smallest integer >= a / b, for b > 0
CeilDiv(a, b) == (a + b - 1) \div b

\* C12: a fill-up query returns no message that the tick has already
\* selected, that its first pass deferred or that its last fill-up round
\* deferred.
C12_FillUpExcludesSeen ==
    [][(pc[1] = "fill" /\ pc'[1] = "addDefer") =>
          \A j \in DOMAIN additional'[1] :
              additional'[1][j].id \notin
                  (Range(Ids(selected[1])) \cup Range(Ids(deferred[1]))
                       \cup Range(Ids(addDeferred[1])))]_vars

\* C13: when the fill-up loop of a tick has ended, it has run at most
\* ceil(n / RATE_LIMIT_GLOBAL) iterations, n the number of rows of the table
\* (no backlog is larger than that).
C13_FillUpIterations ==
    pc[1] = "send" => rounds[1] <= CeilDiv(Len(messages), GlobalCeiling)

\* a message as the loop read it passes the three conditions of the due
\* query for the tick's currentTime
ReadVisible(p, msg) ==
    /\ ~msg.processed
    /\ msg.prepared
    /\ msg.processingDate <= currentTime[p]

\* C14: every row a due query of the tick returns is the stored row as it is
\* at the query and has processed = false, prepared = true and
\* processingDate <= currentTime; every message handed to the transport was
\* read that way in the tick.
C14_OnlyVisibleRead ==
    /\ [](pc[1] \in {"send", "await", "outcome"} =>
            \A j \in DOMAIN selected[1] : ReadVisible(1, selected[1][j]))
    /\ [][/\ (pc[1] = "query" /\ pc'[1] = "defer") =>
                \A j \in DOMAIN batch'[1] :
                    /\ batch'[1][j] = messages[batch'[1][j].id]
                    /\ ReadVisible(1, batch'[1][j])
          /\ (pc[1] = "fill" /\ pc'[1] = "addDefer") =>
                \A j \in DOMAIN additional'[1] :
                    /\ additional'[1][j] = messages[additional'[1][j].id]
                    /\ ReadVisible(1, additional'[1][j])]_vars

\* C14 happens: messages are with the transport while the table holds a
\* dispatched row and a row that is not due yet, neither of them read
C14_Witness ==
    /\ pc[1] = "await"
    /\ selected[1] # <<>>
    /\ \E m, n \in DOMAIN messages :
        /\ messages[m].processed
        /\ ~messages[n].processed /\ messages[n].prepared
        /\ messages[n].processingDate > currentTime[1]
        /\ {m, n} \cap Range(Ids(selected[1])) = {}
        /\ {m, n} \cap Range(Ids(batch[1])) = {}

\* C16: no step removes a row or takes a processed flag from true to false,
\* no step changes the id, chat or creation time of a row, and a step of the
\* dispatch loop (deferral, failure, success) leaves the content and the
\* prepared flag of every row as they are.
C16_NoLossNoRevert ==
    [][/\ Len(messages') >= Len(messages)
       /\ \A m \in DOMAIN messages :
            /\ messages[m].processed => messages'[m].processed
            /\ messages'[m].id = messages[m].id
            /\ messages'[m].chatId = messages[m].chatId
            /\ messages'[m].chatType = messages[m].chatType
            /\ messages'[m].createdAt = messages[m].createdAt
            /\ loopVars' # loopVars =>
                 /\ messages'[m].content = messages[m].content
                 /\ messages'[m].prepared = messages[m].prepared
       /\ loopVars' # loopVars => Len(messages') = Len(messages)]_vars

\* C16 happens: a tick has deferred a message, recorded a success and
\* recorded a failure, and every row is still in the table
C16_Witness ==
    /\ pc[1] = "sleep"
    /\ deferred[1] # <<>>
    /\ \E j, k \in DOMAIN selected[1] :
        /\ sendResults[1][j] /\ messages[selected[1][j].id].processed
        /\ ~sendResults[1][k]
        /\ messages[selected[1][k].id].attempts = selected[1][k].attempts + 1
    /\ Len(messages) = MaxRows

\* the outcome of send j of the last tick is in the store: the row is marked
\* dispatched, or carries the attempt count it was read with plus one
OutcomeStored(p, j) ==
    IF sendResults[p][j] THEN messages[selected[p][j].id].processed
    ELSE messages[selected[p][j].id].attempts = selected[p][j].attempts + 1

\* C17: the step that records a failed send changes no other row than the
\* failed message's and leaves the loop in its outcome loop; once the
\* outcome loop is over every selected message has its own outcome in the
\* store; and the loop then sleeps and goes on to the while test of the next
\* tick.
C17_FailedSendNotFatal ==
    /\ [](/\ pc[1] \in {"sleep", "loop"} =>
                \A j \in DOMAIN selected[1] : OutcomeStored(1, j)
          /\ (pc[1] = "outcome" /\ idx[1] > Len(selected[1])) => ENABLED OutcomeDone(1)
          /\ pc[1] = "sleep" => ENABLED sleepUntilNextSecond(1))
    /\ [][(AtOutcome(1) /\ idx'[1] = idx[1] + 1 /\ ~sendResults[1][idx[1]]) =>
             /\ pc'[1] = "outcome"
             /\ \A m \in DOMAIN messages :
                    m # selected[1][idx[1]].id => messages'[m] = messages[m]]_vars

\* C17 happens: the first send of a tick failed, a later send of another
\* message of the same chat class succeeded and is marked, and the loop is
\* at the while test of the next tick
C17_Witness ==
    /\ NextTickStarts(1)
    /\ \E j, k \in DOMAIN selected[1] :
        /\ j < k
        /\ selected[1][j].id # selected[1][k].id
        /\ selected[1][j].chatId = selected[1][k].chatId
        /\ ~sendResults[1][j]
        /\ ~messages[selected[1][j].id].processed
        /\ sendResults[1][k]
        /\ messages[selected[1][k].id].processed

\* every send callback of the tick has been started and has returned
AllSendsBack(p) ==
    /\ DOMAIN calls[p] = DOMAIN selected[p]
    /\ \A j \in DOMAIN calls[p] : calls[p][j] \in {"ok", "fail"}

\* a step writes an outcome: a processed flag is set or an attempt count
\* changes
WritesOutcome ==
    \E m \in DOMAIN messages :
        \/ ~messages[m].processed /\ messages'[m].processed
        \/ messages'[m].attempts # messages[m].attempts

\* C19: a step that writes an outcome (markMessageProcessed,
\* updateMessageRetry) is taken only when every selected send of the tick
\* has been issued and has returned, and the step that starts a tick (its
\* query follows) is taken only when every outcome of the tick before is in
\* the store.
C19_SendsThenOutcomesThenTick ==
    [][/\ WritesOutcome => (pc[1] = "outcome" /\ AllSendsBack(1))
       /\ (pc[1] = "loop" /\ pc'[1] = "query") =>
             /\ DOMAIN sendResults[1] = DOMAIN selected[1]
             /\ \A j \in DOMAIN selected[1] : OutcomeStored(1, j)]_vars

\* C19 happens: the sends of two different messages have returned, one ok
\* and one failed, the outcome of the first is written and that of the
\* second is not yet
C19_Witness ==
    /\ pc[1] = "outcome"
    /\ idx[1] = 2
    /\ Len(selected[1]) >= 2
    /\ selected[1][1].id # selected[1][2].id
    /\ calls[1][1] = "ok" /\ calls[1][2] = "fail"
    /\ messages[selected[1][1].id].processed
    /\ messages[selected[1][2].id].attempts = selected[1][2].attempts

\* the fields of row m that the dispatch loop writes change in the step
LoopWrites(m) ==
    \/ messages'[m].processed # messages[m].processed
    \/ Rescheduled(m)

\* C18: once a store call of an invocation has thrown, processMessages has
\* ended with the error, and from then on no row is marked, rescheduled or
\* deferred, no send is issued and no local of the loop changes.
C18_StoreFailureEndsInvocation ==
    /\ [](thrown[1] => pc[1] = "rejected")
    /\ [][(thrown[1] /\ thrown'[1]) =>
             /\ \A m \in DOMAIN messages : ~LoopWrites(m)
             /\ loopVars' = loopVars]_vars

\* C18 happens: a store call threw in the outcome loop after the first
\* outcome was written, the second outcome is not in the store, and the
\* ingestion workflow has stored a message since
C18_Witness ==
    /\ thrown[1]
    /\ pc[1] = "rejected"
    /\ idx[1] = 2
    /\ Len(sendResults[1]) >= 2
    /\ selected[1][1].id # selected[1][2].id
    /\ OutcomeStored(1, 1)
    /\ ~OutcomeStored(1, 2)
    /\ \E m \in DOMAIN messages : messages[m].createdAt > currentTime[1]

\* a prepared row not yet marked dispatched
Waiting(m) == messages[m].prepared /\ ~messages[m].processed

Elapsed(p) == now - startTime[p]

\* C20: a tick begins only while less than 59 000 ms have elapsed since the
\* start of the invocation; once they have, the loop's next step is the
\* return; and every invocation that began returns.
C20_WindowThenReturn ==
    /\ [][(pc[1] = "loop" /\ pc'[1] = "query") =>
             Elapsed(1) < ProcessingDuration]_vars
    /\ [][(pc[1] = "loop" /\ Elapsed(1) >= ProcessingDuration) =>
             pc'[1] = "idle"]_vars
    /\ (pc[1] # "idle") ~> (pc[1] = "idle")

\* C20 happens: the invocation has returned after its window, and its last
\* tick began in the last second of the window
C20_Witness ==
    /\ pc[1] = "idle"
    /\ startTime[1] >= DelayStepMs
    /\ Elapsed(1) >= ProcessingDuration
    /\ currentTime[1] - startTime[1] >= ProcessingDuration - TickMs
    /\ currentTime[1] - startTime[1] < ProcessingDuration

\* the due query of the tick finds no row
NothingDue(p) == Eligible(currentTime[p], {}) = {}

\* a tick whose due query found no row is on its way to the next tick
EmptyTick(p) ==
    \/ pc[p] = "query" /\ NothingDue(p)
    \/ pc[p] = "sleep" /\ batch[p] = <<>>

\* C21: a step of the loop in a tick whose due query returned nothing writes
\* no row and issues no send, and it leads to the next tick only through a
\* sleep that ends on the next second boundary.
C21_EmptyTickSleeps ==
    /\ [][(EmptyTick(1) /\ loopVars' # loopVars) =>
             /\ messages' = messages
             /\ calls'[1] = <<>> /\ sendResults'[1] = <<>>
             /\ pc[1] = "query" => pc'[1] = "sleep" /\ now' = now
             /\ pc[1] = "sleep" =>
                    /\ pc'[1] = "loop"
                    /\ now' > now
                    /\ now' % TickMs = 0
                    /\ now' - now <= TickMs]_vars
    /\ [][(pc[1] = "loop" /\ pc'[1] = "query" /\ batch[1] = <<>>
             /\ currentTime[1] >= startTime[1] /\ currentTime[1] > 0) =>
                now > currentTime[1] /\ now % TickMs = 0]_vars

\* C21 happens: a tick found nothing due and the loop is back at its head
\* on the next second boundary, with a row in the table still undispatched
C21_Witness ==
    /\ pc[1] = "loop"
    /\ batch[1] = <<>>
    /\ currentTime[1] > startTime[1]
    /\ now = currentTime[1] + SleepDelay(currentTime[1])
    /\ \E m \in DOMAIN messages : ~messages[m].processed

\* C22: the attempts of a row change only in the step that applies a failed
\* send of that row, and then by exactly +1; in every other step (deferral,
\* successful dispatch, ingestion) they stay as they are.
C22_AttemptsOnlyOnFailure ==
    [][\A m \in DOMAIN messages :
          messages'[m].attempts # messages[m].attempts =>
              /\ AtOutcome(1)
              /\ selected[1][idx[1]].id = m
              /\ ~sendResults[1][idx[1]]
              /\ messages'[m].attempts = messages[m].attempts + 1]_vars

\* C22 happens: in one tick a row was deferred, a send succeeded and a send
\* failed; only the row of the failed send has one attempt more than it was
\* read with
C22_Witness ==
    /\ pc[1] = "sleep"
    /\ \E j, k \in DOMAIN selected[1] :
        /\ ~sendResults[1][j]
        /\ sendResults[1][k]
        /\ selected[1][j].id # selected[1][k].id
        /\ messages[selected[1][j].id].attempts = selected[1][j].attempts + 1
        /\ messages[selected[1][k].id].attempts = selected[1][k].attempts
        /\ \E d \in DOMAIN deferred[1] :
            /\ deferred[1][d].id \notin {selected[1][j].id, selected[1][k].id}
            /\ messages[deferred[1][d].id].attempts = deferred[1][d].attempts
            /\ messages[deferred[1][d].id].processingDate > deferred[1][d].processingDate

\* C23: of the messages of one chat, every selected one is due no later
\* than every deferred one, and of two with the same due time the one
\* earlier in the input (the lower index, which is the id) is the selected.
C23_EarliestDueSelected ==
    rlOut # <<>> =>
        \A i \in DOMAIN rlOut[1].selected, j \in DOMAIN rlOut[1].deferred :
            LET sel == rlOut[1].selected[i]
                def == rlOut[1].deferred[j]
            IN  sel.chatId = def.chatId =>
                    /\ sel.processingDate <= def.processingDate
                    /\ sel.processingDate = def.processingDate => sel.id < def.id

\* C23 happens: a chat with ceiling 1 has three messages in the batch, the
\* first of them due last; the second is selected, the first and the third
\* (due with the second) are deferred
C23_Witness ==
    /\ rlOut # <<>>
    /\ Len(rlOut[1].selected) = 1
    /\ Len(rlOut[1].deferred) = 2
    /\ rlOut[1].selected[1].id = 2
    /\ \E j, k \in DOMAIN rlOut[1].deferred :
        /\ rlOut[1].deferred[j].id = 1
        /\ rlOut[1].deferred[j].processingDate > rlOut[1].selected[1].processingDate
        /\ rlOut[1].deferred[k].id = 3
        /\ rlOut[1].deferred[k].processingDate = rlOut[1].selected[1].processingDate
        /\ rlOut[1].deferred[k].chatId = rlOut[1].selected[1].chatId
        /\ rlOut[1].deferred[j].chatId = rlOut[1].selected[1].chatId

\* C24: what a batch gives for a chat is what the chat's own messages give
\* when they are the whole batch; so two batches with the same messages
\* of the chat in the same order give the same for it.
C24_ChatsIndependent ==
    rlOut # <<>> =>
        \A c \in RLChatIds :
            LET alone == applyRateLimit(GroupOf(rlIn, c), env)
            IN  /\ GroupOf(rlOut[1].selected, c) = alone.selected
                /\ GroupOf(rlOut[1].deferred, c) = alone.deferred

\* C24 happens: the batch holds two chats of the same class, one with more
\* messages than its ceiling, the other with one message, which is selected
C24_Witness ==
    /\ rlOut # <<>>
    /\ \E c, d \in RLChatIds :
        /\ c # d
        /\ CeilingOfChat(c) = CeilingOfChat(d)
        /\ CountChat(rlIn, c) > CeilingOfChat(c)
        /\ CountChat(rlOut[1].deferred, c) > 0
        /\ CountChat(rlIn, d) = 1
        /\ CountChat(rlOut[1].selected, d) = 1

ConfiguredCeiling(chatId) ==
    IF ChatTypeOf(chatId) = "channel" THEN parseInt(env.RATE_LIMIT_CHANNEL)
    ELSE parseInt(env.RATE_LIMIT_PRIVATE)

\* C26: under a ceiling configured as 0 for a class, no message of a chat of
\* the class is selected.
C26_ZeroCeilingDefersAll ==
    rlOut # <<>> =>
        \A c \in RLChatIds :
            ConfiguredCeiling(c) = Num(0) => CountChat(rlOut[1].selected, c) = 0

\* C27: under a negative ceiling configured for a class, no message of a
\* chat of the class is selected.
C27_NegativeCeilingFailsClosed ==
    rlOut # <<>> =>
        \A c \in RLChatIds :
            (~ConfiguredCeiling(c).nan /\ ConfiguredCeiling(c).val < 0) =>
                CountChat(rlOut[1].selected, c) = 0

\* the messages of a chat that the chat's ceiling admits among those due at t
AdmittedOfChat(chatId, t) ==
    Min(Max(CeilingOfChat(chatId), 0),
        Cardinality({i \in Eligible(t, {}) : messages[i].chatId = chatId}))

RECURSIVE SumAdmitted(_, _)
SumAdmitted(chats, t) ==
    IF chats = {} THEN 0
    ELSE LET c == CHOOSE x \in chats : TRUE
         IN  AdmittedOfChat(c, t) + SumAdmitted(chats \ {c}, t)

\* when the sends are issued the store holds, due at the tick's time, at
\* least globalCeiling messages of which the per-chat ceilings admit at
\* least globalCeiling; every such message was due when the tick began,
\* because a tick only moves due times forward before its sends
BacklogAdmitsCeiling(p) ==
    /\ Cardinality(Eligible(currentTime[p], {})) >= GlobalCeiling
    /\ SumAdmitted(ChatIds, currentTime[p]) >= GlobalCeiling

\* C28: a tick on such a backlog hands the transport exactly globalCeiling
\* messages, all distinct.
C28_FullTickDispatchesCeiling ==
    (pc[1] = "send" /\ BacklogAdmitsCeiling(1)) =>
        /\ Len(selected[1]) = GlobalCeiling
        /\ Cardinality(Range(Ids(selected[1]))) = GlobalCeiling

\* the message as the workflow's update step leaves it: prefixed, prepared,
\* and the delay step over at time t
WorkflowDone(msg, t) ==
    /\ msg.prepared
    /\ Len(msg.content) >= 2
    /\ Head(msg.content) = "I have got your message: "
    /\ t >= msg.createdAt + DelayStepMs

\* C29: every message whose send is under way was read as the update step
\* leaves it; prepared goes to true only in a step that also prepends the
\* prefix, is no step of the dispatch loop, and comes no sooner than the
\* delay after the insert.
C29_SentOnlyAfterUpdateStep ==
    /\ [](pc[1] = "await" =>
            \A j \in DOMAIN selected[1] : WorkflowDone(selected[1][j], currentTime[1]))
    /\ [][\A m \in DOMAIN messages :
             (~messages[m].prepared /\ messages'[m].prepared) =>
                 /\ messages'[m].content =
                        <<"I have got your message: ">> \o messages[m].content
                 /\ now >= messages[m].createdAt + DelayStepMs
                 /\ loopVars' = loopVars]_vars

\* C29 happens: a message that came in while the loop was running, and was
\* updated by the workflow since, is being sent
C29_Witness ==
    /\ pc[1] = "await"
    /\ \E j \in DOMAIN selected[1] :
        /\ selected[1][j].createdAt >= DelayStepMs
        /\ WorkflowDone(selected[1][j], currentTime[1])

\* C30: the response for an incoming message is returned while the message
\* is saved and not yet prepared, before its delay step is over.
C30_AckBeforeDelay ==
    [][\A m \in DOMAIN messages' :
          (m \in responded' /\ m \notin responded) =>
              /\ ~messages'[m].prepared
              /\ now' < messages'[m].createdAt + DelayStepMs]_vars

\* the row as handleIncomingMessage builds it for an update received at t
FreshRow(row, t) ==
    /\ ~row.processed
    /\ ~row.prepared
    /\ row.attempts = 0
    /\ row.processingDate = t
    /\ row.createdAt = t

\* the contexts of the runs whose save step ends in this step
SavedNow == contexts' \ contexts

\* C31: a step that inserts a row inserts one row, not dispatched, not
\* prepared, with no attempts, due and created at the time of the step, and
\* leaves the other rows alone; a save step that answers 200 has inserted
\* exactly one such row and hands on its id.
C31_InsertedRowFresh ==
    [][/\ Len(messages') # Len(messages) =>
            /\ Len(messages') = Len(messages) + 1
            /\ SubSeq(messages', 1, Len(messages)) = messages
            /\ FreshRow(messages'[Len(messages')], now)
            /\ messages'[Len(messages')].id = Len(messages')
       /\ \A c \in SavedNow :
            c.status = 200 =>
                /\ Len(messages') = Len(messages) + 1
                /\ c.messageId = Len(messages')
                /\ FreshRow(messages'[c.messageId], now)]_vars

\* C31 happens: a run that answered 200 is at its delay step, its row as it
\* was inserted, after a run whose insert threw
C31_Witness ==
    /\ \E c \in contexts :
        /\ c.status = 200
        /\ c.messageId \in DOMAIN messages
        /\ FreshRow(messages[c.messageId], c.since)
    /\ 0 \in responded

\* C32: when the sends of a tick are issued, no id occurs twice in
\* `selected`.
C32_NoDuplicateInTick ==
    pc[1] = "send" =>
        \A j, k \in DOMAIN selected[1] :
            j # k => selected[1][j].id # selected[1][k].id

\* C33: with one loop instance and a store whose calls return, the
\* requests of a tick are issued for no message for which a send of an
\* earlier tick, of this or an earlier invocation, returned success.
C33_NoResendAfterSuccess ==
    [][(pc[1] = "send" /\ pc'[1] = "await") =>
          \A j \in DOMAIN selected[1] : selected[1][j].id \notin delivered]_vars

\* C33 happens: the requests of a tick are out while the store holds a
\* message delivered by an earlier tick, due by its processingDate
C33_Witness ==
    /\ pc[1] = "await"
    /\ selected[1] # <<>>
    /\ \E m \in delivered :
        /\ m \notin Range(Ids(selected[1]))
        /\ messages[m].processingDate <= currentTime[1]

\* invocation p has recorded a failure for row m in its current tick, and
\* no success
FailureRecorded(p, m) ==
    /\ pc[p] = "outcome"
    /\ \E j \in 1..(idx[p] - 1) : selected[p][j].id = m /\ ~sendResults[p][j]
    /\ \A j \in DOMAIN selected[p] : selected[p][j].id = m => ~sendResults[p][j]

\* C34: with two invocations that overlap on the store, in any order of
\* their steps, no step takes a processed flag from true to false and no due
\* query or fill-up query of either invocation returns a row whose processed
\* flag is true, a row for which the other invocation records a failure
\* included.
C34_ProcessedStaysUnderOverlap ==
    [][/\ \A m \in DOMAIN messages : messages[m].processed => messages'[m].processed
       /\ \A p \in Procs :
            /\ batch'[p] # batch[p] =>
                 \A j \in DOMAIN batch'[p] : ~messages[batch'[p][j].id].processed
            /\ additional'[p] # additional[p] =>
                 \A j \in DOMAIN additional'[p] :
                     ~messages[additional'[p][j].id].processed]_vars

\* C34 happens: one invocation has just recorded a failure for a row (the
\* retry time is counted from the present clock) that the other, which has
\* slept and returned since, had marked dispatched, and the flag is still
\* true
C34_Witness ==
    \E p, q \in Procs, m \in DOMAIN messages :
        /\ p # q
        /\ FailureRecorded(p, m)
        /\ messages[m].processed
        /\ messages[m].attempts = 1
        /\ messages[m].processingDate = now + DelayMinutes(1) * MinuteMs
        /\ m \in delivered
        /\ startTime[q] > 0
        /\ pc[q] = "idle"

\* C35: when a tick has ended, every message that its first pass or its
\* last fill-up round deferred is due no later than one tick interval after
\* the tick's query time.
C35_DeferredWithinOneTick ==
    pc[1] = "sleep" =>
        \A j \in DOMAIN (deferred[1] \o addDeferred[1]) :
            messages[(deferred[1] \o addDeferred[1])[j].id].processingDate
                <= currentTime[1] + TickMs

\* the second of the wall clock a time lies in
SecondOf(t) == t \div 1000

\* C36: a loop iteration ends only by a sleep, empty or not; the sleep
\* lasts between 1 and 1000 ms and ends on the first second boundary after
\* the time it was asked for; and a tick of a run starts in a later second
\* than the tick of the run before it.
C36_OneTickPerSecond ==
    [][/\ (pc[1] \notin {"idle", "loop"} /\ pc'[1] = "loop") =>
            /\ pc[1] = "sleep"
            /\ now' - now \in 1..1000
            /\ now' % 1000 = 0
            /\ SecondOf(now') = SecondOf(now) + 1
       /\ (pc[1] = "loop" /\ pc'[1] = "query" /\ currentTime[1] >= startTime[1]) =>
            SecondOf(currentTime'[1]) > SecondOf(currentTime[1])]_vars

\* C36 happens: the second tick of a run has started, in the second after
\* the one the run's first tick started in, off a boundary
C36_Witness ==
    /\ pc[1] = "query"
    /\ startTime[1] % 1000 # 0
    /\ currentTime[1] > startTime[1]
    /\ SecondOf(currentTime[1]) = SecondOf(startTime[1]) + 1

\* the save step of a run has ended in this step without a message:
\* messageId 0
FailedNow == {c \in SavedNow : c.messageId = 0}

\* C37: a save step that fails, with no `message` field or with a caught
\* exception, answers 400 or 500 with messageId 0, and the update step of
\* such a run marks no row prepared and changes no row's content: it leaves
\* the table as it is.
C37_FailedRunTouchesNothing ==
    [][/\ \A c \in SavedNow : (c.status # 200) <=> (c.messageId = 0)
       /\ \A c \in FailedNow : c.status \in {400, 500}
       /\ (\E c \in contexts : c.messageId = 0 /\ c \notin contexts') =>
            messages' = messages]_vars

\* C37 happens: a run whose insert threw after the row was stored has gone
\* through its update step, and the row is still not prepared and has the
\* content it came with, a second after the delay was over
C37_Witness ==
    /\ 0 \in responded
    /\ FailedRuns = {}
    /\ \E m \in DOMAIN messages :
        /\ ~messages[m].prepared
        /\ messages[m].content = <<"text">>
        /\ m \notin {c.messageId : c \in contexts}
        /\ now > messages[m].createdAt + DelayStepMs

\* C38: in a polling loop the offset never decreases; when a batch has
\* been handled the offset is the update_id of its last update plus 1,
\* whether or not a workflow threw; and no update is handed to the workflow
\* twice.
C38_OffsetAdvances ==
    /\ [][offset' >= offset]_vars
    /\ []((pollPc = "each" /\ updates # <<>> /\ upos > Len(updates)) =>
             offset = updates[Len(updates)].update_id + 1)
    /\ [](\A j, k \in DOMAIN passed : j # k => passed[j] # passed[k])

\* C38 happens: the workflow of an update threw in its update step (the row
\* is still not prepared, a second and more after its delay), the loop went
\* on to a later update, and a batch has been handled to its end
C38_Witness ==
    /\ pollPc = "each"
    /\ Len(passed) >= 2
    /\ upos > Len(updates)
    /\ updates # <<>>
    /\ \E m \in DOMAIN messages :
        /\ ~messages[m].prepared
        /\ now >= messages[m].createdAt + DelayStepMs + TickMs

\* the file ids that successful uploads of the photo stored under key k
\* have recorded on its row
RecordedFor(k) ==
    {sends[i].newFileId : i \in {j \in DOMAIN sends :
        sends[j].ref = k /\ sends[j].how = "multipart" /\ sends[j].state = "ok"
            /\ sends[j].newFileId # "null"}}

\* C39: once an upload of the photo stored under a key has recorded a file
\* id on the key's row, a send that begins for a message with that key is by
\* file id, the one the row holds, recorded by such an upload, and is no
\* upload.
C39_NoSecondUpload ==
    [][\A k \in Keys :
          (RecordedFor(k) # {} /\ Len(sends') = Len(sends) + 1
              /\ sends'[Len(sends')].ref = k) =>
                  /\ sends'[Len(sends')].how = "fileId"
                  /\ sends'[Len(sends')].photo = files[k]
                  /\ files[k] \in RecordedFor(k)]_vars

\* C39 happens: a photo was uploaded, its file id recorded, and a later
\* send for the same key went by that file id
C39_Witness ==
    \E i, j \in DOMAIN sends :
        /\ i < j
        /\ sends[i].ref \in Keys
        /\ sends[j].ref = sends[i].ref
        /\ sends[i].how = "multipart"
        /\ sends[i].state = "ok"
        /\ sends[j].how = "fileId"
        /\ sends[j].photo = sends[i].newFileId
        /\ sends[j].state = "ok"

\* C40: a migration that is applied is one whose version is not recorded
\* in schema_migrations, the migrations of a run are applied in ascending
\* order of version, and a run that follows a run which applied every
\* pending migration applies nothing.
C40_AppliesUnrecordedOnly ==
    [][Len(appliedLog') > Len(appliedLog) =>
          LET new == appliedLog'[Len(appliedLog')]
          IN  /\ new.version \notin schema_migrations
              /\ \A j \in DOMAIN appliedLog :
                    appliedLog[j].run = new.run => appliedLog[j].version < new.version]_vars

====
